---- MODULE Spec2Model ----
(***************************************************************************)
(* event-sauce: event builders, aggregation, conflict flagging and the     *)
(* sqlx storage adapter (events table + one entity table), modelled as a   *)
(* state machine of clients that build (entity, event) pairs and persist   *)
(* them through transactions.                                              *)
(***************************************************************************)
EXTENDS Integers, Sequences, FiniteSets, TLC

(* ---------------------------------------------------------------- bounds *)
\* number of Uuid::new_v4() values that may be drawn in one behaviour
MaxUuid == 4

\* the clients (connections) that drive the read -> build -> persist loop
Clients == {1, 2}

\* user names carried by payloads
Names == {"a", "b"}

\* the names given to users when they are created by a storing client
CreateNames == {"a"}

\* session ids a caller may attach to a builder
SessionIds == {101}

(* ------------------------------------------------------- option encoding *)
\* Option::<Uuid>::None
NoneId == 0

\* Option::<DateTime<Utc>>::None
NoneTime == 0

\* Option::None of a payload, JSON value, entity, event, builder or pair
None == [t |-> "None"]

\* SQL NULL in a jsonb column / DBEvent.data == None
SqlNull == [j |-> "NULL"]

\* serde_json::Value::Null
JsonNull == [j |-> "null"]

Ok(v) == [ok |-> TRUE, v |-> v]

Err(e) == [ok |-> FALSE, e |-> e]

\* Result::expect on an Err: the call does not return, the thread unwinds
Panic == [ok |-> FALSE, e |-> "panic"]

(* --------------------------------------------------------------- payloads *)
UserCreated(n) == [t |-> "UserCreated", name |-> n]

UserUpdated(n) == [t |-> "UserUpdated", name |-> n]

UserDeleted == [t |-> "UserDeleted"]

UserPurged == [t |-> "UserPurged"]

\* struct TestUnitStructCreate;
TestUnitStructCreate == [t |-> "TestUnitStructCreate"]

\* struct TestUnitStructUpdate;
TestUnitStructUpdate == [t |-> "TestUnitStructUpdate"]

\* a caller's payload type that holds a map keyed by a tuple
UserTagged == [t |-> "UserTagged"]

\* enum UserEventData { UserCreated(..), UserUpdated(..), UserDeleted(..) }
UserEventData(v) == [t |-> "UserEventData", v |-> v]

ConflictData(ae, edc) ==
    [t |-> "ConflictData", applied_event |-> ae, conflicting_event_data |-> edc]

\* EventData::event_type(&self)
EventType(p) ==
    IF p.t = "UserEventData" THEN p.v.t ELSE p.t

\* Entity::entity_type()
EntityType == "users"

\* struct User { id, name, conflicted }
User(id, n, c) == [id |-> id, name |-> n, conflicted |-> c]

(* ----------------------------------------------------------------- events *)
Event(id, p, eid, sid, purger, at, purged) ==
    [id |-> id, event_type |-> EventType(p), entity_type |-> EntityType,
     entity_id |-> eid, session_id |-> sid, purger_id |-> purger,
     data |-> p, created_at |-> at, purged_at |-> purged]

(* --------------------------------------------------------------- builders *)
\* CreateEventBuilder::new: the entity id is drawn when the builder is made
CreateEventBuilderNew(p, uuid) ==
    [kind |-> "Create", payload |-> p, session_id |-> NoneId, entity_id |-> uuid]

\* {Update,Delete,Purge,Action,Conflict}EventBuilder::new
EventBuilderNew(kind, p) ==
    [kind |-> kind, payload |-> p, session_id |-> NoneId]

\* EventBuilder::session_id
BuilderSessionId(b, sid) == [b EXCEPT !.session_id = sid]

\* an entity_id that keeps the id the builder already has
BuilderEntityId_KeepsFirst(b, eid) == b

\* CreateEventBuilder::entity_id
BuilderEntityId(b, eid) == [b EXCEPT !.entity_id = eid]

\* EventData::Builder of each payload type (set by the derive)
BuilderKind(p) ==
    CASE p.t = "UserCreated" -> "Create"
      [] p.t = "UserUpdated" -> "Update"
      [] p.t = "UserDeleted" -> "Delete"
      [] p.t = "UserPurged" -> "Purge"
      [] p.t = "UserEventData" -> "Action"
      [] p.t = "ConflictData" -> "Conflict"

\* EventData::into_builder
IntoBuilderOf(p, uuid) ==
    IF BuilderKind(p) = "Create"
    THEN CreateEventBuilderNew(p, uuid)
    ELSE EventBuilderNew(BuilderKind(p), p)

\* EventData::with_session_id
WithSessionIdOf(p, sid, uuid) == BuilderSessionId(IntoBuilderOf(p, uuid), sid)

\* a create build that stamps the event as purged when it is made
CreateBuild_StampsPurged(b, uuid, at) ==
    Event(uuid, b.payload, b.entity_id, b.session_id, NoneId, at, at)

\* CreateEventBuilder::build
CreateBuild(b, uuid, at) ==
    Event(uuid, b.payload, b.entity_id, b.session_id, NoneId, at, NoneTime)

\* an update build that draws a new entity id instead of taking the given one
UpdateBuildWithEntityId_FreshId(b, eid, uuid, at) ==
    Event(uuid, b.payload, uuid, b.session_id, NoneId, at, NoneTime)

\* UpdateEventBuilder::build_with_entity_id
UpdateBuildWithEntityId(b, eid, uuid, at) ==
    Event(uuid, b.payload, eid, b.session_id, NoneId, at, NoneTime)

\* UpdateEventBuilder::build
UpdateBuild(b, entity, uuid, at) ==
    Event(uuid, b.payload, entity.id, b.session_id, NoneId, at, NoneTime)

\* a delete build that draws a new entity id instead of taking the given one
DeleteBuildWithEntityId_FreshId(b, eid, uuid, at) ==
    Event(uuid, b.payload, uuid, b.session_id, NoneId, at, NoneTime)

\* DeleteEventBuilder::build_with_entity_id
DeleteBuildWithEntityId(b, eid, uuid, at) ==
    Event(uuid, b.payload, eid, b.session_id, NoneId, at, NoneTime)

\* DeleteEventBuilder::build
DeleteBuild(b, entity, uuid, at) ==
    Event(uuid, b.payload, entity.id, b.session_id, NoneId, at, NoneTime)

\* a purge build that keeps the payload in the event
PurgeBuildWithEntityId_KeepsData(b, eid, uuid, at, at2) ==
    Event(uuid, b.payload, eid, b.session_id, b.session_id, at, at2)

\* PurgeEventBuilder::build_with_entity_id: the payload is dropped, the two
\* Utc::now() calls give created_at and purged_at
PurgeBuildWithEntityId(b, eid, uuid, at, at2) ==
    [Event(uuid, b.payload, eid, b.session_id, b.session_id, at, at2)
        EXCEPT !.data = None]

\* PurgeEventBuilder::build
PurgeBuild(b, entity, uuid, at, at2) ==
    PurgeBuildWithEntityId(b, entity.id, uuid, at, at2)

\* a conflict build that takes over the id of the applied event
ConflictBuildWithEntityId_ReusesAppliedId(b, uuid, at) ==
    Event(b.payload.applied_event.id, b.payload,
          b.payload.applied_event.entity_id, b.session_id, NoneId, at, NoneTime)

\* ConflictEventBuilder::build_with_entity_id
ConflictBuildWithEntityId(b, uuid, at) ==
    Event(uuid, b.payload, b.payload.applied_event.entity_id, b.session_id,
          NoneId, at, NoneTime)

\* ConflictEventBuilder::build
ConflictBuild(b, entity, uuid, at) ==
    Event(uuid, b.payload, entity.id, b.session_id, NoneId, at, NoneTime)

\* an action build that always uses the freshly drawn entity id
ActionBuild_AlwaysFresh(b, entity, uuid, uuid2, at) ==
    Event(uuid, b.payload, uuid2, b.session_id, NoneId, at, NoneTime)

\* ActionEventBuilder::build: map_or draws its default Uuid eagerly
ActionBuild(b, entity, uuid, uuid2, at) ==
    Event(uuid, b.payload, IF entity = None THEN uuid2 ELSE entity.id,
          b.session_id, NoneId, at, NoneTime)

\* From<D> for EventBuilder<D>, the crate's first builder: the event is made
\* here, with its id, its entity id and its created_at; Uuid::nil() is 0
EventBuilderFrom(data, uuid, uuid2, at) ==
    [kind |-> "EventBuilder",
     event |-> [id |-> uuid, event_type |-> EventType(data),
                entity_type |-> EntityType, entity_id |-> uuid2,
                session_id |-> NoneId, data |-> data, created_at |-> at]]

\* EventBuilder::entity_id
EventBuilderEntityId(b, entity_id) ==
    [b EXCEPT !.event.entity_id = entity_id]

\* EventBuilder::build
EventBuilderBuild(b) == b.event

(* ------------------------------------------------------------ aggregation *)
\* AggregateCreate<UserCreated> for User
try_aggregate_create(event) ==
    IF event.data = None
    THEN Err("EmptyEventData")
    ELSE Ok(User(event.entity_id, event.data.name, FALSE))

\* AggregateUpdate<UserUpdated> for User
try_aggregate_update(self, event) ==
    IF event.data = None
    THEN Err("EmptyEventData")
    ELSE Ok(User(event.entity_id, event.data.name, FALSE))

\* AggregateCreate<TestUnitStructCreate> for User: String::new() is ""
try_aggregate_create_TestUnitStructCreate(event) ==
    Ok(User(event.entity_id, "", FALSE))

\* AggregateUpdate<TestUnitStructUpdate> for User
try_aggregate_update_TestUnitStructUpdate(self, event) == Ok(self)

\* a delete aggregation that changes the entity
try_aggregate_delete_TogglesFlag(self, event) ==
    Ok([self EXCEPT !.conflicted = ~@])

\* AggregateDelete::try_aggregate_delete (default body)
try_aggregate_delete(self, event) == Ok(self)

\* a conflict aggregation that also applies the conflicting payload
try_aggregate_conflict_AppliesPayload(self, event) ==
    LET c == event.data.conflicting_event_data.v
    IN  Ok([self EXCEPT !.conflicted = TRUE,
                        !.name = IF c.t = "UserUpdated" THEN c.name ELSE @])

\* AggregateConflict<EDA, EDC> for User
try_aggregate_conflict(self, event) == Ok([self EXCEPT !.conflicted = TRUE])

\* Event::try_into_variant: narrow Event<UserEventData> to Event<variant>
try_into_variant(event, variant) ==
    IF event.data # None /\ event.data.v.t = variant
    THEN Ok([event EXCEPT !.data = event.data.v])
    ELSE Err("ConversionError")

\* an action aggregation that treats an event without data as an error
try_aggregate_action_NoneIsError(entity, event) ==
    IF event.data # None
    THEN CASE event.data.v.t = "UserCreated" ->
                LET c == try_into_variant(event, "UserCreated")
                IN  IF c.ok THEN try_aggregate_create(c.v) ELSE c
           [] event.data.v.t = "UserUpdated" ->
                LET u == try_into_variant(event, "UserUpdated")
                IN  IF ~u.ok THEN u
                    ELSE IF entity = None THEN Err("MissingEntity")
                    ELSE try_aggregate_update(entity, u.v)
           [] event.data.v.t = "UserDeleted" ->
                LET d == try_into_variant(event, "UserDeleted")
                IN  IF ~d.ok THEN d
                    ELSE IF entity = None THEN Err("MissingEntity")
                    ELSE try_aggregate_delete(entity, d.v)
    ELSE Err("MissingEntity")

\* AggregateAction<UserEventData> for User
try_aggregate_action(entity, event) ==
    IF event.data # None
    THEN CASE event.data.v.t = "UserCreated" ->
                LET c == try_into_variant(event, "UserCreated")
                IN  IF c.ok THEN try_aggregate_create(c.v) ELSE c
           [] event.data.v.t = "UserUpdated" ->
                LET u == try_into_variant(event, "UserUpdated")
                IN  IF ~u.ok THEN u
                    ELSE IF entity = None THEN Err("MissingEntity")
                    ELSE try_aggregate_update(entity, u.v)
           [] event.data.v.t = "UserDeleted" ->
                LET d == try_into_variant(event, "UserDeleted")
                IN  IF ~d.ok THEN d
                    ELSE IF entity = None THEN Err("MissingEntity")
                    ELSE try_aggregate_delete(entity, d.v)
    ELSE IF entity # None THEN Ok(entity)
    ELSE Err("MissingEntity")

\* a conflict check that lets deletions through
check_conflict_DeleteNeverConflicts(self, applied_event) ==
    IF self.v.t \in {"UserCreated", "UserDeleted"}
    THEN Ok(self)
    ELSE Err(ConflictData(applied_event, self))

\* ConflictCheck<UserEventData> for UserEventData
check_conflict(self, applied_event) ==
    IF self.v.t = "UserCreated"
    THEN Ok(self)
    ELSE Err(ConflictData(applied_event, self))

(* -------------------------------------------------- entity/event pairs *)
\* StorageBuilder::new
StorageBuilderNew(entity, event) ==
    [kind |-> "StorageBuilder", entity |-> entity, event |-> event]

\* DeleteBuilder::new
DeleteBuilderNew(entity, event) ==
    [kind |-> "DeleteBuilder", entity |-> entity, event |-> event]

\* PurgeBuilder::new
PurgeBuilderNew(entity, event) ==
    [kind |-> "PurgeBuilder", entity |-> entity, event |-> event]

\* ActionBuilder::new
ActionBuilderNew(entity, event) ==
    [kind |-> "ActionBuilder", entity |-> entity, event |-> event]

\* CreateEntityBuilder::try_create
try_create(builder, uuid, at) ==
    LET event == CreateBuild(builder, uuid, at)
        entity == try_aggregate_create(event)
    IN  IF entity.ok THEN Ok(StorageBuilderNew(entity.v, event)) ELSE entity

\* UpdateEntityBuilder::try_update
try_update(self, builder, uuid, at) ==
    LET event == UpdateBuildWithEntityId(builder, self.id, uuid, at)
        entity == try_aggregate_update(self, event)
    IN  IF entity.ok THEN Ok(StorageBuilderNew(entity.v, event)) ELSE entity

\* DeleteEntityBuilder::try_delete
try_delete(self, builder, uuid, at) ==
    LET event == DeleteBuildWithEntityId(builder, self.id, uuid, at)
        entity == try_aggregate_delete(self, event)
    IN  IF entity.ok THEN Ok(DeleteBuilderNew(entity.v, event)) ELSE entity

\* PurgeEntityBuilder::try_purge
try_purge(self, builder, uuid, at, at2) ==
    PurgeBuilderNew(self, PurgeBuildWithEntityId(builder, self.id, uuid, at, at2))

\* ConflictEntityBuilder::try_flag_conflict
try_flag_conflict(self, builder, uuid, at) ==
    LET event == ConflictBuildWithEntityId(builder, uuid, at)
        entity == try_aggregate_conflict(self, event)
    IN  IF entity.ok THEN Ok(StorageBuilderNew(entity.v, event)) ELSE entity

\* a try_action that makes up an empty entity when it is given none
try_action_DefaultEntity(builder, entity, uuid, uuid2, at) ==
    LET event == ActionBuild(builder, entity, uuid, uuid2, at)
        new == try_aggregate_action(
                    IF entity = None THEN User(uuid2, "", FALSE) ELSE entity,
                    event)
    IN  IF new.ok THEN Ok(ActionBuilderNew(new.v, event)) ELSE new

\* ActionEntityBuilder::try_action
try_action(builder, entity, uuid, uuid2, at) ==
    LET event == ActionBuild(builder, entity, uuid, uuid2, at)
        new == try_aggregate_action(entity, event)
    IN  IF new.ok THEN Ok(ActionBuilderNew(new.v, event)) ELSE new

(* ---------------------------------------------------------- serialisation *)
RECURSIVE to_value(_)
\* serde_json::to_value of a payload: a unit struct is JSON null, a struct an
\* object of its fields, the enum is adjacently tagged (event_type, data),
\* and an embedded Event is an object of its fields
to_value(p) ==
    CASE p = None -> JsonNull
      [] p.t \in {"UserCreated", "UserUpdated"} ->
            [j |-> "object", name |-> p.name]
      [] p.t \in {"UserDeleted", "UserPurged",
                   "TestUnitStructCreate", "TestUnitStructUpdate"} -> JsonNull
      [] p.t = "UserEventData" ->
            [j |-> "object", event_type |-> p.v.t, data |-> to_value(p.v)]
      [] p.t = "ConflictData" ->
            [j |-> "object",
             applied_event |->
                [p.applied_event EXCEPT !.data = to_value(p.applied_event.data)],
             conflicting_event_data |-> to_value(p.conflicting_event_data)]

\* TryFrom<Event<S>> for DBEvent: every field is carried over, the payload is
\* serialised, an absent payload stays absent
DBEventFrom(event) ==
    [id |-> event.id, event_type |-> event.event_type,
     entity_type |-> event.entity_type, entity_id |-> event.entity_id,
     session_id |-> event.session_id, purger_id |-> event.purger_id,
     created_at |-> event.created_at, purged_at |-> event.purged_at,
     data |-> IF event.data = None THEN SqlNull ELSE to_value(event.data)]

\* serde_json::to_value as a Result: a map whose keys are not strings is an
\* Err ("key must be a string")
try_to_value(p) ==
    IF p # None /\ p.t = "UserTagged" THEN Err("serde_json") ELSE Ok(to_value(p))

\* TryFrom<Event<S>> for DBEvent as a Result: data: to_value(other.data)?
DBEventTryFromEvent(event) ==
    LET data == try_to_value(event.data)
    IN  IF data.ok THEN Ok(DBEventFrom(event)) ELSE data

(* -------------------------------------------------------- deserialisation *)
\* the payload types S a caller may name in Event::<S>::try_from
PayloadTypes ==
    {"UserCreated", "UserUpdated", "UserDeleted", "UserPurged",
     "TestUnitStructCreate", "TestUnitStructUpdate", "UserEventData"}

\* the payload types that are unit structs
UnitStructs ==
    {"UserDeleted", "UserPurged", "TestUnitStructCreate", "TestUnitStructUpdate"}

\* the variants of enum UserEventData, in declaration order
Variants == <<"UserCreated", "UserUpdated", "UserDeleted">>

\* serde_json::from_value::<S> of a struct payload type: a struct is read from
\* an object that has its fields (other fields are skipped), a unit struct
\* from JSON null
from_value_struct(S, j) ==
    IF S \in UnitStructs
    THEN IF j = JsonNull THEN Ok([t |-> S]) ELSE Err("serde_json")
    ELSE IF j.j = "object" /\ "name" \in DOMAIN j
         THEN Ok([t |-> S, name |-> j.name])
         ELSE Err("serde_json")

\* serde_json::from_value::<S>: the enum is adjacently tagged, its variant is
\* named by the event_type field and read from the data field
from_value(S, j) ==
    IF S # "UserEventData"
    THEN from_value_struct(S, j)
    ELSE IF /\ j.j = "object"
            /\ {"event_type", "data"} \subseteq DOMAIN j
            /\ \E k \in DOMAIN Variants : Variants[k] = j.event_type
         THEN LET v == from_value_struct(j.event_type, j.data)
              IN  IF v.ok THEN Ok(UserEventData(v.v)) ELSE v
         ELSE Err("serde_json")

\* serde_json::from_value::<Option<S>>: JSON null is None
from_value_option(S, j) ==
    IF j = JsonNull THEN Ok(None) ELSE from_value(S, j)

\* the Event that both decoders assemble from a DBEvent and the decoded data
EventOfDBEvent(other, data) ==
    [id |-> other.id, event_type |-> other.event_type,
     entity_type |-> other.entity_type, entity_id |-> other.entity_id,
     session_id |-> other.session_id, purger_id |-> other.purger_id,
     data |-> data, created_at |-> other.created_at,
     purged_at |-> other.purged_at]

\* TryFrom<DBEvent> for Event<S>
EventTryFrom(S, other) ==
    LET data == IF other.data # SqlNull
                THEN from_value_option(S, other.data)
                ELSE Ok(None)
    IN  IF data.ok THEN Ok(EventOfDBEvent(other, data.v)) ELSE data

\* a decoder that ignores event_type and takes the first variant, in
\* declaration order, that the data can be read as
try_enum_event_from_db_event_FirstMatch(db_event) ==
    LET content == IF db_event.data = SqlNull THEN JsonNull ELSE db_event.data
        fits == {k \in DOMAIN Variants : from_value_struct(Variants[k], content).ok}
    IN  IF fits = {}
        THEN Err("serde_json")
        ELSE LET k == CHOOSE i \in fits : \A m \in fits : i <= m
             IN  Ok(EventOfDBEvent(db_event,
                        UserEventData(from_value_struct(Variants[k], content).v)))

\* Event::<EDENUM>::try_enum_event_from_db_event
try_enum_event_from_db_event(db_event) ==
    LET intermediate ==
            [j |-> "object",
             data |-> IF db_event.data = SqlNull THEN JsonNull ELSE db_event.data,
             event_type |-> db_event.event_type]
        enum_data == from_value("UserEventData", intermediate)
    IN  IF enum_data.ok
        THEN Ok(EventOfDBEvent(db_event, enum_data.v))
        ELSE enum_data

(* ------------------------------------------------------------------ store *)
\* the entity table's marker of a row deleted inside a transaction
Deleted == [t |-> "Deleted"]

Restrict(f, S) == [x \in S |-> f[x]]

\* a transaction that has staged nothing (SqlxPgStore::transaction)
TxBegin == [state |-> "open", events |-> <<>>, entities |-> <<>>]

\* a connection without a transaction
TxNone == [state |-> "none", events |-> <<>>, entities |-> <<>>]

\* the events a statement inside transaction t sees
ViewEvents(d, t) == t.events @@ d.events

\* the entity rows a statement inside transaction t sees
ViewEntities(d, t) ==
    LET m == t.entities @@ d.entities
    IN  Restrict(m, {i \in DOMAIN m : m[i] # Deleted})

\* an events insert that replaces the whole row on conflict
DBEventPersist_Replaces(d, t, e, s) ==
    LET row == [id |-> e.id, sequence_number |-> s,
                event_type |-> e.event_type, entity_type |-> e.entity_type,
                entity_id |-> e.entity_id, data |-> e.data,
                session_id |-> e.session_id, created_at |-> e.created_at,
                purger_id |-> NoneId, purged_at |-> NoneTime]
    IN  [t EXCEPT !.events = (e.id :> row) @@ t.events]

\* Persistable for DBEvent: insert ... on conflict (id) do update set data
DBEventPersist(d, t, e, s) ==
    LET view == ViewEvents(d, t)
        row == IF e.id \in DOMAIN view
               THEN [view[e.id] EXCEPT !.data = e.data]
               ELSE [id |-> e.id, sequence_number |-> s,
                     event_type |-> e.event_type, entity_type |-> e.entity_type,
                     entity_id |-> e.entity_id, data |-> e.data,
                     session_id |-> e.session_id, created_at |-> e.created_at,
                     purger_id |-> NoneId, purged_at |-> NoneTime]
    IN  [t EXCEPT !.events = (e.id :> row) @@ t.events]

\* an entity upsert that leaves out the name column
EntityPersist_BlankName(t, entity) ==
    [t EXCEPT !.entities = (entity.id :> [entity EXCEPT !.name = ""]) @@ t.entities]

\* Persistable for User: insert ... on conflict (id) do update set columns
EntityPersist(t, entity) ==
    [t EXCEPT !.entities = (entity.id :> entity) @@ t.entities]

\* Deletable for User / stage_purge: delete from users where id = $1
EntityDelete(d, t, id) ==
    IF id \in DOMAIN ViewEntities(d, t)
    THEN [t EXCEPT !.entities = (id :> Deleted) @@ t.entities]
    ELSE t

\* a purge update without its where clause
EventsPurgeUpdate_AllRows(d, t, at, by, eid) ==
    LET view == ViewEvents(d, t)
        upd == [i \in DOMAIN view |-> [view[i] EXCEPT !.data = SqlNull,
                                                      !.purged_at = at,
                                                      !.purger_id = by]]
    IN  [t EXCEPT !.events = upd @@ t.events]

\* stage_purge: update events set data = null, purged_at, purger_id
\* where entity_id = $3
EventsPurgeUpdate(d, t, at, by, eid) ==
    LET view == ViewEvents(d, t)
        hit == {i \in DOMAIN view : view[i].entity_id = eid}
        upd == [i \in hit |-> [view[i] EXCEPT !.data = SqlNull,
                                              !.purged_at = at,
                                              !.purger_id = by]]
    IN  [t EXCEPT !.events = upd @@ t.events]

\* a commit that publishes the staged events but not the staged entity rows
TxCommit_EventsOnly(d, t) ==
    [events |-> t.events @@ d.events, entities |-> d.entities]

\* SqlxPgStoreTransaction::commit
TxCommit(d, t) ==
    LET m == t.entities @@ d.entities
    IN  [events |-> t.events @@ d.events,
         entities |-> Restrict(m, {i \in DOMAIN m : m[i] # Deleted})]

(* ---------------------------------------------------------- orchestration *)
\* StorageBuilderPersist::stage_persist; fail names the write that errors
stage_persist(d, t, sb, fail, s) ==
    LET t1 == DBEventPersist(d, t, DBEventFrom(sb.event), s)
        t2 == EntityPersist(t1, sb.entity)
    IN  CASE ~DBEventTryFromEvent(sb.event).ok -> [t |-> t, r |-> Panic]
          [] fail = "event" -> [t |-> t, r |-> Err("event")]
          [] fail = "entity" -> [t |-> t1, r |-> Err("entity")]
          [] OTHER -> [t |-> t2, r |-> Ok(ViewEntities(d, t2)[sb.entity.id])]

\* a persist that commits what it wrote when the entity write errors
persist_CommitsOnEntityError(d, sb, fail, s) ==
    LET t1 == DBEventPersist(d, TxBegin, DBEventFrom(sb.event), s)
        t2 == EntityPersist(t1, sb.entity)
    IN  CASE ~DBEventTryFromEvent(sb.event).ok -> [db |-> d, r |-> Panic]
          [] fail \in {"event", "commit"} -> [db |-> d, r |-> Err(fail)]
          [] fail = "entity" -> [db |-> TxCommit(d, t1), r |-> Err(fail)]
          [] OTHER ->
                [db |-> TxCommit(d, t2),
                 r |-> Ok(ViewEntities(d, t2)[sb.entity.id])]

\* StorageBuilderPersist::persist: the transaction is dropped on every `?`
persist(d, sb, fail, s) ==
    LET t1 == DBEventPersist(d, TxBegin, DBEventFrom(sb.event), s)
        t2 == EntityPersist(t1, sb.entity)
    IN  CASE ~DBEventTryFromEvent(sb.event).ok -> [db |-> d, r |-> Panic]
          [] fail \in {"event", "entity", "commit"} ->
                [db |-> d, r |-> Err(fail)]
          [] OTHER ->
                [db |-> TxCommit(d, t2),
                 r |-> Ok(ViewEntities(d, t2)[sb.entity.id])]

\* DeleteBuilderPersist::stage_delete
stage_delete(d, t, del, fail, s) ==
    LET t1 == DBEventPersist(d, t, DBEventFrom(del.event), s)
        t2 == EntityDelete(d, t1, del.entity.id)
    IN  CASE ~DBEventTryFromEvent(del.event).ok -> [t |-> t, r |-> Panic]
          [] fail = "event" -> [t |-> t, r |-> Err("event")]
          [] fail = "entity" -> [t |-> t1, r |-> Err("entity")]
          [] OTHER -> [t |-> t2, r |-> Ok(None)]

\* a delete that commits the delete event but leaves the entity row in place
delete_KeepsEntity(d, del, fail, s) ==
    LET t1 == DBEventPersist(d, TxBegin, DBEventFrom(del.event), s)
    IN  CASE ~DBEventTryFromEvent(del.event).ok -> [db |-> d, r |-> Panic]
          [] fail \in {"event", "entity", "commit"} ->
                [db |-> d, r |-> Err(fail)]
          [] OTHER -> [db |-> TxCommit(d, t1), r |-> Ok(None)]

\* DeleteBuilderPersist::delete
delete(d, del, fail, s) ==
    LET t1 == DBEventPersist(d, TxBegin, DBEventFrom(del.event), s)
        t2 == EntityDelete(d, t1, del.entity.id)
    IN  CASE ~DBEventTryFromEvent(del.event).ok -> [db |-> d, r |-> Panic]
          [] fail \in {"event", "entity", "commit"} ->
                [db |-> d, r |-> Err(fail)]
          [] OTHER -> [db |-> TxCommit(d, t2), r |-> Ok(None)]

\* a stage_purge that leaves the entity row in place
stage_purge_KeepsEntity(d, t, pb, fail, s) ==
    LET db_event == DBEventFrom(pb.event)
        t2 == EventsPurgeUpdate(d, t, db_event.created_at,
                                db_event.session_id, pb.entity.id)
        t3 == DBEventPersist(d, t2, db_event, s)
    IN  CASE ~DBEventTryFromEvent(pb.event).ok -> [t |-> t, r |-> Panic]
          [] fail = "entity" -> [t |-> t, r |-> Err("entity")]
          [] fail = "update" -> [t |-> t, r |-> Err("update")]
          [] fail = "event" -> [t |-> t2, r |-> Err("event")]
          [] OTHER -> [t |-> t3, r |-> Ok(None)]

\* PurgeBuilderExecute::stage_purge
stage_purge(d, t, pb, fail, s) ==
    LET db_event == DBEventFrom(pb.event)
        t1 == EntityDelete(d, t, pb.entity.id)
        t2 == EventsPurgeUpdate(d, t1, db_event.created_at,
                                db_event.session_id, pb.entity.id)
        t3 == DBEventPersist(d, t2, db_event, s)
    IN  CASE ~DBEventTryFromEvent(pb.event).ok -> [t |-> t, r |-> Panic]
          [] fail = "entity" -> [t |-> t, r |-> Err("entity")]
          [] fail = "update" -> [t |-> t1, r |-> Err("update")]
          [] fail = "event" -> [t |-> t2, r |-> Err("event")]
          [] OTHER -> [t |-> t3, r |-> Ok(None)]

\* a purge that commits the statements that ran before the one that errored
purge_CommitsPartial(d, pb, fail, s) ==
    LET staged == stage_purge(d, TxBegin, pb, fail, s)
    IN  IF staged.r = Panic
        THEN [db |-> d, r |-> Panic]
        ELSE IF fail = "commit"
        THEN [db |-> d, r |-> Err(fail)]
        ELSE [db |-> TxCommit(d, staged.t),
              r |-> IF staged.r.ok THEN Ok(None) ELSE Err(fail)]

\* PurgeBuilderExecute::purge
purge(d, pb, fail, s) ==
    LET staged == stage_purge(d, TxBegin, pb, fail, s)
    IN  IF staged.r = Panic
        THEN [db |-> d, r |-> Panic]
        ELSE IF ~staged.r.ok \/ fail = "commit"
        THEN [db |-> d, r |-> Err(fail)]
        ELSE [db |-> TxCommit(d, staged.t), r |-> Ok(None)]

(* ------------------------------------------------------------------ state *)
VARIABLES
    db,        \* the committed store: events table and users table
    tx,        \* per client: its transaction and the writes staged in it
    builder,   \* per client: the event builder it holds, or None
    pending,   \* per client: the (entity, event) pair it built, or None
    held,      \* per client: the entity it holds in memory, or None
    applied,   \* per client: the event whose aggregation gave held, or None
    errs,      \* the Err values returned and the panics raised so far:
               \* operation, failing step (or "panic"), event
    nextUuid,  \* how many Uuid::new_v4() values have been drawn
    now,       \* the last instant returned by Utc::now()
    seq,       \* the last value drawn from the events sequence_number serial
    conv       \* per client: the event, DBEvent and outcome of a conversion

vars == <<db, tx, builder, pending, held, applied, errs, nextUuid, now, seq, conv>>

\* a caller that has no conversion under way
ConvNone ==
    [type |-> "none", event |-> None, db_event |-> None, via |-> "none",
     decoded |-> None]

StructPayloads ==
    {UserCreated(n) : n \in Names} \cup {UserUpdated(n) : n \in Names}
        \cup {UserDeleted, UserPurged}

EnumPayloads ==
    {UserEventData(v) : v \in StructPayloads \ {UserPurged}}

\* Uuid::new_v4() draws needed to make and build a builder of this kind
UuidsFor(kind) == IF kind \in {"Create", "Action"} THEN 2 ELSE 1

Init ==
    /\ db = [events |-> <<>>, entities |-> <<>>]
    /\ tx = [w \in Clients |-> TxNone]
    /\ builder = [w \in Clients |-> None]
    /\ pending = [w \in Clients |-> None]
    /\ held = [w \in Clients |-> None]
    /\ applied = [w \in Clients |-> None]
    /\ errs = {}
    /\ nextUuid = 0
    /\ now = 0
    /\ seq = 0
    /\ conv = [w \in Clients |-> ConvNone]

(* ------------------------------------------------- building (no I/O) *)
\* payload.into_builder()
IntoBuilder(w, p) ==
    /\ builder[w] = None /\ pending[w] = None
    /\ nextUuid + UuidsFor(BuilderKind(p)) <= MaxUuid
    /\ builder' = [builder EXCEPT ![w] = IntoBuilderOf(p, nextUuid + 1)]
    /\ nextUuid' = IF BuilderKind(p) = "Create" THEN nextUuid + 1 ELSE nextUuid
    /\ UNCHANGED <<db, tx, pending, held, applied, errs, now, seq, conv>>

\* payload.with_session_id(sid)
WithSessionId(w, p, sid) ==
    /\ builder[w] = None /\ pending[w] = None
    /\ nextUuid + UuidsFor(BuilderKind(p)) <= MaxUuid
    /\ builder' = [builder EXCEPT ![w] = WithSessionIdOf(p, sid, nextUuid + 1)]
    /\ nextUuid' = IF BuilderKind(p) = "Create" THEN nextUuid + 1 ELSE nextUuid
    /\ UNCHANGED <<db, tx, pending, held, applied, errs, now, seq, conv>>

\* what a try_* call leaves with the client: the pair, or the Err it returned
Built(w, op, r, uuids, ticks) ==
    /\ builder' = [builder EXCEPT ![w] = None]
    /\ pending' = [pending EXCEPT ![w] = IF r.ok THEN r.v ELSE None]
    /\ errs' = IF r.ok THEN errs
               ELSE errs \cup {[op |-> op, at |-> r.e, event |-> nextUuid + 1]}
    /\ nextUuid' = nextUuid + uuids
    /\ now' = now + ticks
    /\ UNCHANGED <<db, tx, seq, conv>>

\* User::try_create(builder)
TryCreate(w) ==
    /\ builder[w] # None /\ builder[w].kind = "Create"
    /\ nextUuid + 1 <= MaxUuid
    /\ Built(w, "try_create", try_create(builder[w], nextUuid + 1, now + 1), 1, 1)
    /\ UNCHANGED <<held, applied>>

\* user.try_update(builder): the entity is moved into the call
TryUpdate(w) ==
    /\ builder[w] # None /\ builder[w].kind = "Update"
    /\ held[w] # None
    /\ nextUuid + 1 <= MaxUuid
    /\ Built(w, "try_update",
             try_update(held[w], builder[w], nextUuid + 1, now + 1), 1, 1)
    /\ held' = [held EXCEPT ![w] = None]
    /\ applied' = [applied EXCEPT ![w] = None]

\* user.try_delete(builder)
TryDelete(w) ==
    /\ builder[w] # None /\ builder[w].kind = "Delete"
    /\ held[w] # None
    /\ nextUuid + 1 <= MaxUuid
    /\ Built(w, "try_delete",
             try_delete(held[w], builder[w], nextUuid + 1, now + 1), 1, 1)
    /\ held' = [held EXCEPT ![w] = None]
    /\ applied' = [applied EXCEPT ![w] = None]

\* user.try_purge(builder)
TryPurge(w) ==
    /\ builder[w] # None /\ builder[w].kind = "Purge"
    /\ held[w] # None
    /\ nextUuid + 1 <= MaxUuid
    /\ Built(w, "try_purge",
             Ok(try_purge(held[w], builder[w], nextUuid + 1, now + 1, now + 2)), 1, 2)
    /\ held' = [held EXCEPT ![w] = None]
    /\ applied' = [applied EXCEPT ![w] = None]

\* User::try_action(builder, entity) with the entity the client holds, if any
TryAction(w) ==
    /\ builder[w] # None /\ builder[w].kind = "Action"
    /\ nextUuid + 2 <= MaxUuid
    /\ Built(w, "try_action",
             try_action(builder[w], held[w], nextUuid + 1, nextUuid + 2, now + 1), 2, 1)
    /\ held' = [held EXCEPT ![w] = None]
    /\ applied' = [applied EXCEPT ![w] = None]

\* user.try_flag_conflict(builder)
TryFlagConflict(w) ==
    /\ builder[w] # None /\ builder[w].kind = "Conflict"
    /\ held[w] # None
    /\ nextUuid + 1 <= MaxUuid
    /\ Built(w, "try_flag_conflict",
             try_flag_conflict(held[w], builder[w], nextUuid + 1, now + 1), 1, 1)
    /\ held' = [held EXCEPT ![w] = None]
    /\ applied' = [applied EXCEPT ![w] = None]

\* the caller takes entity and event out of the pair (public fields)
TakeEntity(w) ==
    /\ pending[w] # None /\ pending[w].kind \in {"ActionBuilder", "StorageBuilder"}
    /\ held' = [held EXCEPT ![w] = pending[w].entity]
    /\ applied' = [applied EXCEPT ![w] = pending[w].event]
    /\ pending' = [pending EXCEPT ![w] = None]
    /\ UNCHANGED <<db, tx, builder, errs, nextUuid, now, seq, conv>>

\* payload.check_conflict(&applied_event), then into_builder() of the outcome
CheckConflict(w, p) ==
    /\ builder[w] = None /\ pending[w] = None
    /\ held[w] # None /\ applied[w] # None
    /\ applied[w].data # None /\ applied[w].data.t = "UserEventData"
    /\ LET r == check_conflict(p, applied[w])
           q == IF r.ok THEN r.v ELSE r.e
       IN  /\ nextUuid + UuidsFor(BuilderKind(q)) <= MaxUuid
           /\ builder' = [builder EXCEPT ![w] = IntoBuilderOf(q, nextUuid + 1)]
    /\ UNCHANGED <<db, tx, pending, held, applied, errs, nextUuid, now, seq, conv>>

(* ------------------------------------------------------------ storage I/O *)
\* what a build-and-store call chain leaves with the client: r is the Result
\* of the chain, event the id of the event it built, wrote whether the events
\* insert was reached (which draws from the sequence_number serial)
Returned(w, op, r, event, uuids, ticks, wrote) ==
    /\ held' = [held EXCEPT ![w] = IF r.ok THEN r.v ELSE None]
    /\ errs' = IF r.ok THEN errs
               ELSE errs \cup {[op |-> op, at |-> r.e, event |-> event]}
    /\ nextUuid' = nextUuid + uuids
    /\ now' = now + ticks
    /\ seq' = IF wrote THEN seq + 1 ELSE seq
    /\ UNCHANGED <<builder, pending, applied, conv>>

\* store.transaction()
Begin(w) ==
    /\ tx[w].state # "open"
    /\ tx' = [tx EXCEPT ![w] = TxBegin]
    /\ UNCHANGED <<db, builder, pending, held, applied, errs, nextUuid, now, seq, conv>>

\* tx.commit(): the staged writes become visible, or the commit errors and
\* the transaction is dropped
Commit(w, fail) ==
    /\ tx[w].state = "open"
    /\ IF fail = "none"
       THEN /\ db' = TxCommit(db, tx[w])
            /\ tx' = [tx EXCEPT ![w] = TxNone]
       ELSE /\ db' = db
            /\ tx' = [tx EXCEPT ![w] = TxNone]
    /\ UNCHANGED <<builder, pending, held, applied, errs, nextUuid, now, seq, conv>>

\* the transaction is dropped without commit
Rollback(w) ==
    /\ tx[w].state = "open"
    /\ tx' = [tx EXCEPT ![w] = TxNone]
    /\ UNCHANGED <<db, builder, pending, held, applied, errs, nextUuid, now, seq, conv>>

\* User::try_create(UserCreated { name }).stage_persist(&mut tx)
CreateStage(w, n, fail) ==
    /\ tx[w].state = "open"
    /\ nextUuid + 2 <= MaxUuid
    /\ LET b == IntoBuilderOf(UserCreated(n), nextUuid + 1)
           sb == try_create(b, nextUuid + 2, now + 1)
           out == stage_persist(db, tx[w], sb.v, fail, seq + 1)
       IN  /\ tx' = [tx EXCEPT ![w] = out.t]
           /\ Returned(w, "stage_persist", out.r, nextUuid + 2, 2, 1, fail # "event")
    /\ db' = db

\* User::try_create(UserCreated { name }).persist(&store)
CreatePersist(w, n, fail) ==
    /\ tx[w].state # "open"
    /\ nextUuid + 2 <= MaxUuid
    /\ LET b == IntoBuilderOf(UserCreated(n), nextUuid + 1)
           sb == try_create(b, nextUuid + 2, now + 1)
           out == persist(db, sb.v, fail, seq + 1)
       IN  /\ db' = out.db
           /\ Returned(w, "persist", out.r, nextUuid + 2, 2, 1,
                       fail # "event")
    /\ tx' = tx

\* user.try_update(UserUpdated { name }).stage_persist(&mut tx)
UpdateStage(w, n, fail) ==
    /\ tx[w].state = "open"
    /\ held[w] # None
    /\ nextUuid + 1 <= MaxUuid
    /\ LET b == IntoBuilderOf(UserUpdated(n), nextUuid + 1)
           sb == try_update(held[w], b, nextUuid + 1, now + 1)
           out == stage_persist(db, tx[w], sb.v, fail, seq + 1)
       IN  /\ tx' = [tx EXCEPT ![w] = out.t]
           /\ Returned(w, "stage_persist", out.r, nextUuid + 1, 1, 1, fail # "event")
    /\ db' = db

\* user.try_update(UserUpdated { name }).persist(&store)
UpdatePersist(w, n, fail) ==
    /\ tx[w].state # "open"
    /\ held[w] # None
    /\ nextUuid + 1 <= MaxUuid
    /\ LET b == IntoBuilderOf(UserUpdated(n), nextUuid + 1)
           sb == try_update(held[w], b, nextUuid + 1, now + 1)
           out == persist(db, sb.v, fail, seq + 1)
       IN  /\ db' = out.db
           /\ Returned(w, "persist", out.r, nextUuid + 1, 1, 1,
                       fail # "event")
    /\ tx' = tx

\* user.try_delete(UserDeleted).stage_delete(&mut tx)
DeleteStage(w, fail) ==
    /\ tx[w].state = "open"
    /\ held[w] # None
    /\ nextUuid + 1 <= MaxUuid
    /\ LET b == IntoBuilderOf(UserDeleted, nextUuid + 1)
           del == try_delete(held[w], b, nextUuid + 1, now + 1)
           out == stage_delete(db, tx[w], del.v, fail, seq + 1)
       IN  /\ tx' = [tx EXCEPT ![w] = out.t]
           /\ Returned(w, "stage_delete", out.r, nextUuid + 1, 1, 1, fail # "event")
    /\ db' = db

\* user.try_delete(UserDeleted).delete(&store)
DeleteNow(w, fail) ==
    /\ tx[w].state # "open"
    /\ held[w] # None
    /\ nextUuid + 1 <= MaxUuid
    /\ LET b == IntoBuilderOf(UserDeleted, nextUuid + 1)
           del == try_delete(held[w], b, nextUuid + 1, now + 1)
           out == delete(db, del.v, fail, seq + 1)
       IN  /\ db' = out.db
           /\ Returned(w, "delete", out.r, nextUuid + 1, 1, 1,
                       fail # "event")
    /\ tx' = tx

\* the purge builder of a caller: UserPurged.into_builder() when it has no
\* session, UserPurged.with_session_id(sid) when it has one
PurgeBuilderOf(sid) ==
    IF sid = NoneId
    THEN IntoBuilderOf(UserPurged, NoneId)
    ELSE WithSessionIdOf(UserPurged, sid, NoneId)

\* user.try_purge(builder).stage_purge(&mut tx)
PurgeStage(w, sid, fail) ==
    /\ tx[w].state = "open"
    /\ held[w] # None
    /\ nextUuid + 1 <= MaxUuid
    /\ LET pb == try_purge(held[w], PurgeBuilderOf(sid), nextUuid + 1, now + 1, now + 2)
           out == stage_purge(db, tx[w], pb, fail, seq + 1)
       IN  /\ tx' = [tx EXCEPT ![w] = out.t]
           /\ Returned(w, "stage_purge", out.r, nextUuid + 1, 1, 2, fail = "none")
    /\ db' = db

\* user.try_purge(builder).purge(&store)
PurgeNow(w, sid, fail) ==
    /\ tx[w].state # "open"
    /\ held[w] # None
    /\ nextUuid + 1 <= MaxUuid
    /\ LET pb == try_purge(held[w], PurgeBuilderOf(sid), nextUuid + 1, now + 1, now + 2)
           out == purge(db, pb, fail, seq + 1)
       IN  /\ db' = out.db
           /\ Returned(w, "purge", out.r, nextUuid + 1, 1, 2,
                       fail \in {"none", "commit"})
    /\ tx' = tx

\* select * from users where id = $1 on the pool: committed rows only
Read(w, id) ==
    /\ id \in DOMAIN db.entities
    /\ held[w] # db.entities[id]
    /\ held' = [held EXCEPT ![w] = db.entities[id]]
    /\ UNCHANGED <<db, tx, builder, pending, applied, errs, nextUuid, now, seq, conv>>

(* ---------------------------------------------------------- specification *)
WriteFails == {"none", "event", "entity"}

StoreFails == {"none", "event", "entity", "commit"}

PurgeStageFails == {"none", "entity", "update", "event"}

PurgeFails == {"none", "entity", "update", "event", "commit"}

OptionalSessionIds == {NoneId} \cup SessionIds

\* clients that build pairs and, in the same call chain, persist, delete or
\* purge them, standalone or staged in a transaction of their own
Next ==
    \E w \in Clients :
        \/ Begin(w)
        \/ \E fail \in {"none", "commit"} : Commit(w, fail)
        \/ Rollback(w)
        \/ \E n \in CreateNames, fail \in WriteFails : CreateStage(w, n, fail)
        \/ \E n \in CreateNames, fail \in StoreFails : CreatePersist(w, n, fail)
        \/ \E n \in Names, fail \in WriteFails : UpdateStage(w, n, fail)
        \/ \E n \in Names, fail \in StoreFails : UpdatePersist(w, n, fail)
        \/ \E fail \in WriteFails : DeleteStage(w, fail)
        \/ \E fail \in StoreFails : DeleteNow(w, fail)
        \/ \E sid \in OptionalSessionIds, fail \in PurgeStageFails :
                PurgeStage(w, sid, fail)
        \/ \E sid \in OptionalSessionIds, fail \in PurgeFails :
                PurgeNow(w, sid, fail)
        \/ \E id \in 1..MaxUuid : Read(w, id)

Spec == Init /\ [][Next]_vars

\* one caller that builds, aggregates and flags conflicts in memory
NextBuild ==
    \E w \in {1} :
        \/ \E p \in StructPayloads \cup EnumPayloads : IntoBuilder(w, p)
        \/ \E p \in StructPayloads \cup EnumPayloads, sid \in SessionIds :
                WithSessionId(w, p, sid)
        \/ TryCreate(w)
        \/ TryUpdate(w)
        \/ TryDelete(w)
        \/ TryPurge(w)
        \/ TryAction(w)
        \/ TryFlagConflict(w)
        \/ TakeEntity(w)
        \/ \E p \in EnumPayloads : CheckConflict(w, p)

SpecBuild == Init /\ [][NextBuild]_vars

\* entity ids a caller passes to CreateEventBuilder::entity_id
ExplicitIds == {21, 22}

\* number of rows the events sequence_number serial may hand out
MaxSeq == 4

\* the pair User::try_create gave an earlier caller, who kept a clone of it
SeedPair(eid, evid, n, at) ==
    try_create(CreateEventBuilderNew(UserCreated(n), eid), evid, at).v

\* the ids of the users the store holds from the start
SeedIds == {11, 13}

SeedPairs == <<SeedPair(11, 12, "a", 1), SeedPair(13, 14, "b", 2)>>

\* the store after both pairs were persisted
SeedStore ==
    LET d0 == [events |-> <<>>, entities |-> <<>>]
        d1 == persist(d0, SeedPairs[1], "none", 1).db
    IN  persist(d1, SeedPairs[2], "none", 2).db

\* a store that already holds two users
InitSeeded ==
    /\ db = SeedStore
    /\ tx = [w \in Clients |-> TxNone]
    /\ builder = [w \in Clients |-> None]
    /\ pending = [w \in Clients |-> None]
    /\ held = [w \in Clients |-> None]
    /\ applied = [w \in Clients |-> None]
    /\ errs = {}
    /\ nextUuid = 0
    /\ now = 2
    /\ seq = 2
    /\ conv = [w \in Clients |-> ConvNone]

\* StorageBuilder::new(entity, event).persist(&store) with the clone of a pair
\* that was persisted before (a retry)
RetryPersist(w, k, fail) ==
    /\ tx[w].state # "open"
    /\ seq + 1 <= MaxSeq
    /\ LET out == persist(db, SeedPairs[k], fail, seq + 1)
       IN  /\ db' = out.db
           /\ Returned(w, "persist", out.r, SeedPairs[k].event.id, 0, 0,
                       fail # "event")
    /\ tx' = tx

\* User::try_create(CreateEventBuilder::new_with_entity_id(payload, x1)
\*     .entity_id(x2)).persist(&store)
CreateExplicit(w, n, x1, x2, fail) ==
    /\ tx[w].state # "open"
    /\ nextUuid + 2 <= MaxUuid
    /\ LET b == BuilderEntityId(
                    BuilderEntityId(IntoBuilderOf(UserCreated(n), nextUuid + 1), x1),
                    x2)
           sb == try_create(b, nextUuid + 2, now + 1)
           out == persist(db, sb.v, fail, seq + 1)
       IN  /\ db' = out.db
           /\ Returned(w, "persist", out.r, nextUuid + 2, 2, 1, fail # "event")
    /\ tx' = tx

\* inputs of the calls whose error paths are not exercised on the seeded store
NoFails == {"none"}

RetryFails == {"none", "commit"}

\* one caller working on a store that already holds users
NextSeeded ==
    \E w \in {1} :
        \/ \E id \in SeedIds \cup ExplicitIds : Read(w, id)
        \/ \E n \in Names, fail \in NoFails : UpdatePersist(w, n, fail)
        \/ \E sid \in OptionalSessionIds, fail \in NoFails : PurgeNow(w, sid, fail)
        \/ \E k \in DOMAIN SeedPairs, fail \in RetryFails : RetryPersist(w, k, fail)
        \/ \E n \in CreateNames, x1 \in ExplicitIds, x2 \in ExplicitIds,
              fail \in StoreFails : CreateExplicit(w, n, x1, x2, fail)

SpecSeeded == InitSeeded /\ [][NextSeeded]_vars

\* ids of the users a caller of try_flag_conflict may hold
FlagEntityIds == {1, 2}

\* the users a caller may hand to try_flag_conflict
FlagUsers ==
    {User(id, n, c) : id \in FlagEntityIds, n \in Names, c \in BOOLEAN}

\* the events a caller may name as applied_event of a ConflictData: enum
\* events of any user, built earlier under id 3
FlagAppliedEvents ==
    {Event(3, p, eid, sid, NoneId, 1, NoneTime) :
        p \in EnumPayloads, eid \in FlagEntityIds, sid \in OptionalSessionIds}

\* the builders a caller may hand to try_flag_conflict: ConflictData is a
\* struct of public fields, into_builder / with_session_id make the builder
FlagBuilders ==
    {IntoBuilderOf(ConflictData(ae, p), NoneId) :
        ae \in FlagAppliedEvents, p \in EnumPayloads}
    \cup {WithSessionIdOf(ConflictData(ae, p), sid, NoneId) :
        ae \in FlagAppliedEvents, p \in EnumPayloads, sid \in SessionIds}

\* a caller about to call entity.try_flag_conflict(builder)
InitFlag ==
    /\ db = [events |-> <<>>, entities |-> <<>>]
    /\ tx = [w \in Clients |-> TxNone]
    /\ builder \in {[w \in Clients |-> IF w = 1 THEN b ELSE None] : b \in FlagBuilders}
    /\ pending = [w \in Clients |-> None]
    /\ held \in {[w \in Clients |-> IF w = 1 THEN u ELSE None] : u \in FlagUsers}
    /\ applied = [w \in Clients |-> None]
    /\ errs = {}
    /\ nextUuid = 3
    /\ now = 1
    /\ seq = 0
    /\ conv = [w \in Clients |-> ConvNone]

NextFlag == \E w \in {1} : TryFlagConflict(w)

SpecFlag == InitFlag /\ [][NextFlag]_vars

(* ------------------------------------------------- two callers that build *)
\* EventBuilder::from(payload), or payload.into_builder() of the first crate
EventBuilderFromData(w, p) ==
    /\ builder[w] = None /\ pending[w] = None
    /\ nextUuid + 2 <= MaxUuid
    /\ builder' = [builder EXCEPT ![w] =
                        EventBuilderFrom(p, nextUuid + 1, nextUuid + 2, now + 1)]
    /\ nextUuid' = nextUuid + 2
    /\ now' = now + 1
    /\ UNCHANGED <<db, tx, pending, held, applied, errs, seq, conv>>

\* builder.entity_id(id) on the first crate's builder, with the id of the
\* entity the caller holds
EventBuilderSetEntityId(w) ==
    /\ builder[w] # None /\ builder[w].kind = "EventBuilder"
    /\ held[w] # None
    /\ builder[w].event.entity_id # held[w].id
    /\ builder' = [builder EXCEPT ![w] = EventBuilderEntityId(builder[w], held[w].id)]
    /\ UNCHANGED <<db, tx, pending, held, applied, errs, nextUuid, now, seq, conv>>

\* builder.build() on the first crate's builder: the caller is left with the
\* event alone
EventBuilderBuildEvent(w) ==
    /\ builder[w] # None /\ builder[w].kind = "EventBuilder"
    /\ pending' = [pending EXCEPT ![w] =
                        [kind |-> "Event", entity |-> None,
                         event |-> EventBuilderBuild(builder[w])]]
    /\ builder' = [builder EXCEPT ![w] = None]
    /\ UNCHANGED <<db, tx, held, applied, errs, nextUuid, now, seq, conv>>

\* the payloads the two callers build events from
OrderPayloads == {UserCreated("a"), UserUpdated("b"), UserDeleted}

\* two callers that make builders and build events in any order
NextOrder ==
    \E w \in Clients :
        \/ \E p \in OrderPayloads : IntoBuilder(w, p)
        \/ \E p \in OrderPayloads : EventBuilderFromData(w, p)
        \/ EventBuilderSetEntityId(w)
        \/ EventBuilderBuildEvent(w)
        \/ TryCreate(w)
        \/ TryUpdate(w)
        \/ TryDelete(w)
        \/ TakeEntity(w)

SpecOrder == Init /\ [][NextOrder]_vars

(* ------------------------------------------- conversion and re-aggregation *)
\* the payloads of type S
PayloadsOf(S) ==
    CASE S = "UserEventData" -> EnumPayloads
      [] S \in UnitStructs -> {[t |-> S]}
      [] OTHER -> {[t |-> S, name |-> n] : n \in Names}

\* the events of type Event<S> a caller may hold: built with a payload, or
\* purged, with no data and the purge columns set
ConvEvents(S) ==
    {Event(1, p, 2, sid, NoneId, 1, NoneTime) :
        p \in PayloadsOf(S), sid \in OptionalSessionIds}
    \cup {[Event(1, p, 2, NoneId, by, 1, 2) EXCEPT !.data = None] :
        p \in PayloadsOf(S), by \in OptionalSessionIds}

\* the entities a caller may hold when it applies a decoded event
ConvUsers == {User(2, n, c) : n \in Names, c \in BOOLEAN}

\* a caller that holds an Event<S> and, possibly, the entity it belongs to
InitConvert ==
    /\ db = [events |-> <<>>, entities |-> <<>>]
    /\ tx = [w \in Clients |-> TxNone]
    /\ builder = [w \in Clients |-> None]
    /\ pending = [w \in Clients |-> None]
    /\ held \in {[w \in Clients |-> IF w = 1 THEN u ELSE None] :
                    u \in ConvUsers \cup {None}}
    /\ applied = [w \in Clients |-> None]
    /\ errs = {}
    /\ nextUuid = 2
    /\ now = 2
    /\ seq = 0
    /\ conv \in UNION {{[w \in Clients |->
                            IF w = 1
                            THEN [type |-> S, event |-> e, db_event |-> None,
                                  via |-> "none", decoded |-> None]
                            ELSE ConvNone] : e \in ConvEvents(S)} :
                        S \in PayloadTypes}

\* DBEvent::try_from(event)
DBEventTryFrom(w) ==
    /\ conv[w].event # None /\ conv[w].db_event = None
    /\ conv' = [conv EXCEPT ![w].db_event = DBEventFrom(conv[w].event)]
    /\ UNCHANGED <<db, tx, builder, pending, held, applied, errs, nextUuid, now, seq>>

\* Event::<S>::try_from(db_event)
TryFromDBEvent(w) ==
    /\ conv[w].db_event # None /\ conv[w].decoded = None
    /\ conv' = [conv EXCEPT ![w].via = "try_from",
                            ![w].decoded = EventTryFrom(conv[w].type, conv[w].db_event)]
    /\ UNCHANGED <<db, tx, builder, pending, held, applied, errs, nextUuid, now, seq>>

\* Event::<UserEventData>::try_enum_event_from_db_event(db_event)
TryEnumEventFromDbEvent(w) ==
    /\ conv[w].db_event # None /\ conv[w].decoded = None
    /\ conv' = [conv EXCEPT ![w].type = "UserEventData",
                            ![w].via = "try_enum_event_from_db_event",
                            ![w].decoded = try_enum_event_from_db_event(conv[w].db_event)]
    /\ UNCHANGED <<db, tx, builder, pending, held, applied, errs, nextUuid, now, seq>>

\* what applying the decoded event leaves with the caller: the entity of the
\* Ok, or the Err; the event is the one that was applied
Aggregated(w, op, r) ==
    /\ held' = [held EXCEPT ![w] = IF r.ok THEN r.v ELSE None]
    /\ errs' = IF r.ok THEN errs
               ELSE errs \cup {[op |-> op, at |-> r.e,
                                event |-> conv[w].decoded.v.id]}
    /\ applied' = [applied EXCEPT ![w] = conv[w].decoded.v]
    /\ conv' = [conv EXCEPT ![w] = ConvNone]
    /\ UNCHANGED <<db, tx, builder, pending, nextUuid, now, seq>>

\* User::try_aggregate_create(&event) with the decoded creation event
AggregateCreate(w) ==
    /\ conv[w].decoded # None /\ conv[w].decoded.ok
    /\ conv[w].type \in {"UserCreated", "TestUnitStructCreate"}
    /\ Aggregated(w, "try_aggregate_create",
                  IF conv[w].type = "UserCreated"
                  THEN try_aggregate_create(conv[w].decoded.v)
                  ELSE try_aggregate_create_TestUnitStructCreate(conv[w].decoded.v))

\* user.try_aggregate_update(&event) with the decoded update event
AggregateUpdate(w) ==
    /\ conv[w].decoded # None /\ conv[w].decoded.ok
    /\ conv[w].type \in {"UserUpdated", "TestUnitStructUpdate"}
    /\ held[w] # None
    /\ Aggregated(w, "try_aggregate_update",
                  IF conv[w].type = "UserUpdated"
                  THEN try_aggregate_update(held[w], conv[w].decoded.v)
                  ELSE try_aggregate_update_TestUnitStructUpdate(held[w],
                                                                 conv[w].decoded.v))

\* User::try_aggregate_action(entity, &event) with the decoded enum event
AggregateAction(w) ==
    /\ conv[w].decoded # None /\ conv[w].decoded.ok
    /\ conv[w].type = "UserEventData"
    /\ Aggregated(w, "try_aggregate_action",
                  try_aggregate_action(held[w], conv[w].decoded.v))

\* one caller that converts an event to a DBEvent, decodes it and applies the
\* decoded event
NextConvert ==
    \E w \in {1} :
        \/ DBEventTryFrom(w)
        \/ TryFromDBEvent(w)
        \/ TryEnumEventFromDbEvent(w)
        \/ AggregateCreate(w)
        \/ AggregateUpdate(w)
        \/ AggregateAction(w)

SpecConvert == InitConvert /\ [][NextConvert]_vars

(* -------------------------------------------- pairs made by the caller *)
\* StorageBuilder::new(user, UpdateEventBuilder::new(p).build(&user)): the
\* pair of a user and an update event the caller built for it
UpdatePairOf(entity, p, uuid, at) ==
    StorageBuilderNew(entity,
                      UpdateBuild(EventBuilderNew("Update", p), entity, uuid, at))

\* DeleteBuilder::new(user, DeleteEventBuilder::new(p).build(&user))
DeletePairOf(entity, p, uuid, at) ==
    DeleteBuilderNew(entity,
                     DeleteBuild(EventBuilderNew("Delete", p), entity, uuid, at))

\* pair.stage_persist(&mut tx)
PairStagePersist(w, p, fail) ==
    /\ tx[w].state = "open"
    /\ held[w] # None
    /\ nextUuid + 1 <= MaxUuid /\ seq + 1 <= MaxSeq
    /\ LET sb == UpdatePairOf(held[w], p, nextUuid + 1, now + 1)
           out == stage_persist(db, tx[w], sb, fail, seq + 1)
       IN  /\ tx' = [tx EXCEPT ![w] = out.t]
           /\ Returned(w, "stage_persist", out.r, nextUuid + 1, 1, 1,
                       out.r # Panic /\ fail # "event")
    /\ db' = db

\* pair.persist(&store)
PairPersist(w, p, fail) ==
    /\ tx[w].state # "open"
    /\ held[w] # None
    /\ nextUuid + 1 <= MaxUuid /\ seq + 1 <= MaxSeq
    /\ LET sb == UpdatePairOf(held[w], p, nextUuid + 1, now + 1)
           out == persist(db, sb, fail, seq + 1)
       IN  /\ db' = out.db
           /\ Returned(w, "persist", out.r, nextUuid + 1, 1, 1,
                       out.r # Panic /\ fail # "event")
    /\ tx' = tx

\* pair.stage_delete(&mut tx)
PairStageDelete(w, p, fail) ==
    /\ tx[w].state = "open"
    /\ held[w] # None
    /\ nextUuid + 1 <= MaxUuid /\ seq + 1 <= MaxSeq
    /\ LET del == DeletePairOf(held[w], p, nextUuid + 1, now + 1)
           out == stage_delete(db, tx[w], del, fail, seq + 1)
       IN  /\ tx' = [tx EXCEPT ![w] = out.t]
           /\ Returned(w, "stage_delete", out.r, nextUuid + 1, 1, 1,
                       out.r # Panic /\ fail # "event")
    /\ db' = db

\* pair.delete(&store)
PairDelete(w, p, fail) ==
    /\ tx[w].state # "open"
    /\ held[w] # None
    /\ nextUuid + 1 <= MaxUuid /\ seq + 1 <= MaxSeq
    /\ LET del == DeletePairOf(held[w], p, nextUuid + 1, now + 1)
           out == delete(db, del, fail, seq + 1)
       IN  /\ db' = out.db
           /\ Returned(w, "delete", out.r, nextUuid + 1, 1, 1,
                       out.r # Panic /\ fail # "event")
    /\ tx' = tx

\* the update payloads of the caller's pairs
PairUpdatePayloads == {UserUpdated("b"), UserTagged}

\* the delete payloads of the caller's pairs
PairDeletePayloads == {UserDeleted, UserTagged}

\* the writes of a pair that may error
PairFails == {"none", "entity"}

\* one caller that stores pairs it made itself, on a store that holds users
NextPair ==
    \E w \in {1} :
        \/ \E id \in SeedIds : Read(w, id)
        \/ Begin(w)
        \/ \E fail \in NoFails : Commit(w, fail)
        \/ Rollback(w)
        \/ \E p \in PairUpdatePayloads, fail \in PairFails :
                PairStagePersist(w, p, fail)
        \/ \E p \in PairUpdatePayloads, fail \in PairFails : PairPersist(w, p, fail)
        \/ \E p \in PairDeletePayloads, fail \in PairFails :
                PairStageDelete(w, p, fail)
        \/ \E p \in PairDeletePayloads, fail \in PairFails : PairDelete(w, p, fail)

SpecPair == InitSeeded /\ [][NextPair]_vars

(* ------------------------------------------------ the hand-over-hand chain *)
\* the pair User::try_action(UserEventData::UserCreated(..), None) gave another
\* caller, who still holds its entity and its event
OtherPair ==
    try_action(IntoBuilderOf(UserEventData(UserCreated("b")), NoneId), None,
               14, 13, 2).v

\* client 2 holds a user it created earlier; client 1 starts with nothing
InitChain ==
    /\ db = [events |-> <<>>, entities |-> <<>>]
    /\ tx = [w \in Clients |-> TxNone]
    /\ builder = [w \in Clients |-> None]
    /\ pending = [w \in Clients |-> None]
    /\ held = [w \in Clients |-> IF w = 2 THEN OtherPair.entity ELSE None]
    /\ applied = [w \in Clients |-> IF w = 2 THEN OtherPair.event ELSE None]
    /\ errs = {}
    /\ nextUuid = 0
    /\ now = 2
    /\ seq = 0
    /\ conv = [w \in Clients |-> ConvNone]

\* ConflictData { applied_event, conflicting_event_data }.into_builder(), with
\* the event client v holds as the applied one
ConflictWith(w, v, p) ==
    /\ builder[w] = None /\ pending[w] = None
    /\ held[w] # None /\ applied[v] # None
    /\ nextUuid + 1 <= MaxUuid
    /\ builder' = [builder EXCEPT ![w] =
                        IntoBuilderOf(ConflictData(applied[v], p), NoneId)]
    /\ UNCHANGED <<db, tx, pending, held, applied, errs, nextUuid, now, seq, conv>>

\* the payloads of the chain's calls
ChainPayloads ==
    {UserCreated("a"), UserUpdated("b"), UserDeleted,
     UserEventData(UserCreated("a")), UserEventData(UserUpdated("b"))}

\* the payloads a caller may report as conflicting
ChainConflicting ==
    {UserEventData(UserUpdated("b")), UserEventData(UserDeleted)}

\* a caller that creates a user and applies further calls to the entity each
\* call returned
NextChain ==
    \E w \in {1} :
        \/ \E p \in ChainPayloads : IntoBuilder(w, p)
        \/ TryCreate(w)
        \/ TryUpdate(w)
        \/ TryDelete(w)
        \/ TryAction(w)
        \/ TakeEntity(w)
        \/ \E v \in Clients, p \in ChainConflicting : ConflictWith(w, v, p)
        \/ TryFlagConflict(w)

SpecChain == InitChain /\ [][NextChain]_vars

(* ================================================================ claims *)

\* C1: when StorageBuilderPersist::persist returned Err because the entity
\* write failed after the event write, no row of that event is committed.
C1_AtomicPersist ==
    \A f \in errs :
        (f.op = "persist" /\ f.at = "entity") => f.event \notin DOMAIN db.events

C1_Witness ==
    /\ \E f \in errs : f.op = "persist" /\ f.at = "entity"
    /\ DOMAIN db.events # {}

\* C2: after stage_persist returned Err from the entity write, no commit makes
\* the event row visible without the row of its entity.
C2_NoPartialStagedPair ==
    \A f \in errs :
        (f.op = "stage_persist" /\ f.at = "entity" /\ f.event \in DOMAIN db.events)
            => db.events[f.event].entity_id \in DOMAIN db.entities

\* C3: while a transaction is open, the event rows it inserted and the users
\* it created are not in the committed store a reader on another connection
\* sees; the step that commits it makes every entity row it staged visible
\* exactly as staged.
C3_StagedInvisibleUntilCommit ==
    [][\A w \in Clients :
        tx[w].state = "open" =>
            /\ \A i \in DOMAIN tx[w].events :
                  tx[w].events[i].purged_at = NoneTime =>
                      /\ i \notin DOMAIN db.events
                      /\ tx[w].events[i].event_type = "UserCreated" =>
                            tx[w].events[i].entity_id \notin DOMAIN db.entities
            /\ (tx'[w].state = "none" /\ db' # db) =>
                  \A x \in DOMAIN tx[w].entities :
                      tx[w].entities[x] # Deleted =>
                          /\ x \in DOMAIN db'.entities
                          /\ db'.entities[x] = tx[w].entities[x]
      ]_vars

C3_Witness ==
    \E w \in Clients :
        /\ tx[w].state = "open"
        /\ \E i \in DOMAIN tx[w].events :
              /\ tx[w].events[i].event_type = "UserCreated"
              /\ tx[w].events[i].entity_id \in DOMAIN tx[w].entities
              /\ tx[w].events[i].entity_id \notin DOMAIN db.entities

\* the step in which client w flags a conflict on the entity it holds
FlagStep(w) ==
    /\ builder[w] # None /\ builder[w].kind = "Conflict"
    /\ builder'[w] = None

\* C4: try_flag_conflict returns the entity it was called on with only the
\* conflict flag changed; id and name are those left by the applied event.
C4_ConflictNonCorruption ==
    [][\A w \in Clients :
        FlagStep(w) =>
            LET cd == builder[w].payload
                new == pending'[w].entity
            IN  /\ pending'[w] # None
                /\ new = [held[w] EXCEPT !.conflicted = TRUE]
                /\ new.id = cd.applied_event.entity_id
                /\ cd.applied_event.data.v.t \in {"UserCreated", "UserUpdated"} =>
                      new.name = cd.applied_event.data.v.name
      ]_vars

C4_Witness ==
    \E w \in Clients :
        /\ pending[w] # None
        /\ pending[w].event.event_type = "ConflictData"
        /\ pending[w].entity.conflicted
        /\ pending[w].event.data.conflicting_event_data.v.t = "UserUpdated"
        /\ pending[w].event.data.conflicting_event_data.v.name # pending[w].entity.name

\* the step in which client w persists, standalone, an update of user x built
\* from a read that another writer's commit has made stale
StaleUpdateStep(w, x) ==
    /\ held[w] # None /\ held[w].id = x
    /\ db.entities[x] # held[w]
    /\ tx[w].state = "none" /\ tx' = tx
    /\ db' # db
    /\ held'[w] # held[w]
    /\ x \in DOMAIN db'.entities

\* C5: the update of the writer that lost the race is never merged into the
\* user row: the row keeps the winner's content, is flagged as conflicted,
\* and a conflict event is recorded.
C5_LoserNeverMerged ==
    [][\A w \in Clients : \A x \in DOMAIN db.entities :
        StaleUpdateStep(w, x) =>
            /\ db'.entities[x] = [db.entities[x] EXCEPT !.conflicted = TRUE]
            /\ \E i \in DOMAIN db'.events \ DOMAIN db.events :
                  db'.events[i].event_type = "ConflictData"
      ]_vars

\* the step in which client w calls try_update with a payload that
\* check_conflict rejects against the last event applied to the entity
ConflictingUpdateStep(w) ==
    /\ builder[w] # None /\ builder[w].kind = "Update"
    /\ held[w] # None
    /\ applied[w] # None /\ applied[w].data # None
    /\ applied[w].data.t = "UserEventData"
    /\ ~check_conflict(UserEventData(builder[w].payload), applied[w]).ok
    /\ builder'[w] = None

\* C6: try_update calls check_conflict: an update payload that conflicts with
\* the last applied event is not aggregated by try_update.
C6_UpdateChecksConflict ==
    [][\A w \in Clients :
        ConflictingUpdateStep(w) =>
            \/ pending'[w] = None
            \/ pending'[w].event.event_type # "UserUpdated"
      ]_vars

\* the step in which client w calls try_purge
PurgeBuildStep(w) ==
    /\ builder[w] # None /\ builder[w].kind = "Purge"
    /\ held[w] # None
    /\ builder'[w] = None

PurgeInvariant(event, b, entity) ==
    /\ event.data = None
    /\ event.purged_at # NoneTime
    /\ event.purger_id = b.session_id
    /\ event.entity_id = entity.id

\* C7: the event of PurgeEventBuilder::build and of try_purge has no data, a
\* purged_at, the builder's session id as purger_id and the entity's id.
C7_PurgeInvariant ==
    [][\A w \in Clients :
        PurgeBuildStep(w) =>
            /\ pending'[w] # None /\ pending'[w].kind = "PurgeBuilder"
            /\ PurgeInvariant(pending'[w].event, builder[w], held[w])
            /\ PurgeInvariant(PurgeBuild(builder[w], held[w], nextUuid + 1,
                                         now + 1, now + 2),
                              builder[w], held[w])
      ]_vars

C7_Witness ==
    \E w \in Clients :
        /\ pending[w] # None /\ pending[w].kind = "PurgeBuilder"
        /\ pending[w].event.purger_id \in SessionIds
        /\ pending[w].event.entity_id = pending[w].entity.id

\* C8: every event a builder produced has data absent iff purged_at is set
\* iff purger_id is set.
C8_BuiltEventPurgeFields ==
    \A w \in Clients :
        pending[w] # None =>
            /\ (pending[w].event.data = None) <=> (pending[w].event.purged_at # NoneTime)
            /\ (pending[w].event.purged_at # NoneTime) <=> (pending[w].event.purger_id # NoneId)

\* C9: in every committed state of the events table a row's data is null iff
\* its purged_at is set, and purged_at is null iff purger_id is null.
C9_RowPurgeColumns ==
    \A i \in DOMAIN db.events :
        /\ (db.events[i].data = SqlNull) <=> (db.events[i].purged_at # NoneTime)
        /\ (db.events[i].purged_at = NoneTime) <=> (db.events[i].purger_id = NoneId)

\* the events of user x among the rows m
EventsOf(m, x) == {i \in DOMAIN m : m[i].entity_id = x}

\* the step in which stage_purge of the user held by client w returns Ok
StagePurgeStep(w) ==
    /\ tx[w].state = "open" /\ tx'[w].state = "open"
    /\ held[w] # None
    /\ errs' = errs
    /\ \E i \in DOMAIN tx'[w].events \ DOMAIN ViewEvents(db, tx[w]) :
          tx'[w].events[i].event_type = "UserPurged"

\* C10: after stage_purge succeeded for user x, inside the transaction x has
\* no row, every event row of x that existed before has null data, and x has
\* exactly one event row more.
C10_StagePurgeEffect ==
    [][\A w \in Clients :
        StagePurgeStep(w) =>
            LET x == held[w].id
                before == ViewEvents(db, tx[w])
                after == ViewEvents(db', tx'[w])
            IN  /\ x \notin DOMAIN ViewEntities(db', tx'[w])
                /\ \A i \in EventsOf(before, x) : after[i].data = SqlNull
                /\ Cardinality(EventsOf(after, x)) = Cardinality(EventsOf(before, x)) + 1
      ]_vars

C10_Witness ==
    \E w \in Clients :
        /\ tx[w].state = "open"
        /\ \E i \in DOMAIN tx[w].events :
              /\ tx[w].events[i].event_type = "UserPurged"
              /\ tx[w].events[i].entity_id \in DOMAIN db.entities
              /\ tx[w].events[i].entity_id \notin DOMAIN ViewEntities(db, tx[w])
              /\ \E k \in EventsOf(db.events, tx[w].events[i].entity_id) :
                    /\ db.events[k].data # SqlNull
                    /\ ViewEvents(db, tx[w])[k].data = SqlNull

\* C11: the row of the purge event itself is stored with its payload: its
\* data is not null.
C11_PurgeEventKeepsData ==
    \A i \in DOMAIN db.events :
        db.events[i].event_type = "UserPurged" => db.events[i].data # SqlNull

\* C13: a standalone purge that returns Err leaves the store as it was: every
\* entity row is still there, no event's data changed, and the purge event
\* has no row.
C13_PurgeAllOrNothing ==
    [][\A f \in errs' \ errs :
        f.op = "purge" =>
            /\ \A x \in DOMAIN db.entities :
                  x \in DOMAIN db'.entities /\ db'.entities[x] = db.entities[x]
            /\ \A i \in DOMAIN db.events :
                  i \in DOMAIN db'.events /\ db'.events[i].data = db.events[i].data
            /\ f.event \notin DOMAIN db'.events
      ]_vars

C13_Witness ==
    /\ \E f \in errs : f.op = "purge" /\ f.at \in {"update", "event"}
    /\ \E x \in DOMAIN db.entities :
          \E i \in EventsOf(db.events, x) : db.events[i].data # SqlNull
    /\ \A i \in DOMAIN db.events : db.events[i].event_type # "UserPurged"

\* C15: purged_at and purger_id of an event row are set once: a committed row
\* that has a purged_at keeps it, and its purger_id, in every later step.
C15_PurgedAtSetOnce ==
    [][\A i \in DOMAIN db.events :
        db.events[i].purged_at # NoneTime =>
            /\ i \in DOMAIN db'.events
            /\ db'.events[i].purged_at = db.events[i].purged_at
            /\ db'.events[i].purger_id = db.events[i].purger_id
      ]_vars

\* the step in which client w calls try_update on the entity it holds
UpdateBuildStep(w) ==
    /\ builder[w] # None /\ builder[w].kind = "Update"
    /\ held[w] # None
    /\ builder'[w] = None

\* C16: the event of UpdateEventBuilder::build(entity) and of
\* entity.try_update(builder) has the entity's id as entity_id, whether or
\* not the builder has a session id.
C16_UpdateIdentity ==
    [][\A w \in Clients :
        UpdateBuildStep(w) =>
            /\ pending'[w] # None /\ pending'[w].kind = "StorageBuilder"
            /\ pending'[w].event.entity_id = held[w].id
            /\ pending'[w].entity.id = held[w].id
            /\ UpdateBuild(builder[w], held[w], nextUuid + 1, now + 1).entity_id
                  = held[w].id
      ]_vars

C16_Witness ==
    \E w \in Clients :
        /\ pending[w] # None /\ pending[w].kind = "StorageBuilder"
        /\ pending[w].event.event_type = "UserUpdated"
        /\ pending[w].event.session_id \in SessionIds
        /\ pending[w].event.entity_id = pending[w].entity.id
        /\ pending[w].event.id # pending[w].event.entity_id

\* the step in which client w calls try_delete on the entity it holds
DeleteBuildStep(w) ==
    /\ builder[w] # None /\ builder[w].kind = "Delete"
    /\ held[w] # None
    /\ builder'[w] = None

\* C17: the event of DeleteEventBuilder::build(entity) and of
\* entity.try_delete(builder) has the id of the entity handed in, and the
\* pair holds that entity.
C17_DeleteIdentity ==
    [][\A w \in Clients :
        DeleteBuildStep(w) =>
            /\ pending'[w] # None /\ pending'[w].kind = "DeleteBuilder"
            /\ pending'[w].event.entity_id = held[w].id
            /\ pending'[w].entity = held[w]
            /\ DeleteBuild(builder[w], held[w], nextUuid + 1, now + 1).entity_id
                  = held[w].id
      ]_vars

C17_Witness ==
    \E w \in Clients :
        /\ pending[w] # None /\ pending[w].kind = "DeleteBuilder"
        /\ pending[w].event.event_type = "UserDeleted"
        /\ pending[w].event.entity_id = pending[w].entity.id
        /\ pending[w].event.id # pending[w].event.entity_id

\* the step in which client w calls try_action
ActionBuildStep(w) ==
    /\ builder[w] # None /\ builder[w].kind = "Action"
    /\ builder'[w] = None

\* C19: the event of ActionEventBuilder::build has the entity's id when an
\* entity is given, and an id drawn in that call when none is given; the
\* entity that try_action creates from None has the event's entity_id.
C19_ActionIdentity ==
    [][\A w \in Clients :
        ActionBuildStep(w) =>
            /\ held[w] # None =>
                  /\ ActionBuild(builder[w], held[w], nextUuid + 1, nextUuid + 2,
                                 now + 1).entity_id = held[w].id
                  /\ pending'[w] # None =>
                        /\ pending'[w].event.entity_id = held[w].id
                        /\ pending'[w].entity.id = held[w].id
            /\ (held[w] = None /\ pending'[w] # None) =>
                  /\ pending'[w].event.entity_id \in (nextUuid + 1)..nextUuid'
                  /\ pending'[w].event.entity_id # pending'[w].event.id
                  /\ pending'[w].entity.id = pending'[w].event.entity_id
      ]_vars

C19_Witness ==
    \E w \in Clients :
        /\ pending[w] # None /\ pending[w].kind = "ActionBuilder"
        /\ pending[w].event.event_type = "UserUpdated"
        /\ pending[w].event.entity_id = pending[w].entity.id
        /\ pending[w].event.entity_id # pending[w].event.id + 1

\* C20: the conflict event of entity.try_flag_conflict(builder) has the id of
\* the entity being flagged as entity_id, event_type "ConflictData" and the
\* entity's entity_type, for every ConflictData payload.
C20_ConflictEventIdentity ==
    [][\A w \in Clients :
        FlagStep(w) =>
            /\ pending'[w] # None
            /\ pending'[w].event.entity_id = held[w].id
            /\ pending'[w].event.event_type = "ConflictData"
            /\ pending'[w].event.entity_type = EntityType
      ]_vars

\* the step in which a purge of user x becomes visible to client w: a purge
\* event of x appears among the rows w's connection sees
PurgeVisibleStep(w, x) ==
    \E i \in DOMAIN ViewEvents(db', tx'[w]) \ DOMAIN ViewEvents(db, tx[w]) :
        /\ ViewEvents(db', tx'[w])[i].event_type = "UserPurged"
        /\ ViewEvents(db', tx'[w])[i].entity_id = x

\* C12: purging user x leaves every event row of another entity unchanged
\* and every other user's row in place.
C12_PurgeFrame ==
    [][\A w \in Clients : \A x \in 1..MaxUuid \cup SeedIds \cup ExplicitIds :
        PurgeVisibleStep(w, x) =>
            LET before == ViewEvents(db, tx[w])
                after == ViewEvents(db', tx'[w])
            IN  /\ \A i \in DOMAIN before :
                      before[i].entity_id # x =>
                          i \in DOMAIN after /\ after[i] = before[i]
                /\ \A y \in DOMAIN ViewEntities(db, tx[w]) \ {x} :
                      /\ y \in DOMAIN ViewEntities(db', tx'[w])
                      /\ ViewEntities(db', tx'[w])[y] = ViewEntities(db, tx[w])[y]
      ]_vars

C12_Witness ==
    \E i \in DOMAIN db.events, k \in DOMAIN db.events :
        /\ db.events[i].event_type = "UserPurged"
        /\ db.events[i].entity_id \notin DOMAIN db.entities
        /\ db.events[k].entity_id # db.events[i].entity_id
        /\ db.events[k].entity_id \in DOMAIN db.entities
        /\ db.events[k].data # SqlNull /\ db.events[k].purged_at = NoneTime

\* C14: an event row whose data a purge has nulled keeps null data in every
\* later step, a repeated persist of the same event included.
C14_PurgeIrreversible ==
    [][\A i \in DOMAIN db.events :
        (db.events[i].data = SqlNull /\ db.events[i].purged_at # NoneTime) =>
            /\ i \in DOMAIN db'.events
            /\ db'.events[i].data = SqlNull
      ]_vars

\* the step that commits the creation of user x, which had no rows before
CreateCommittedStep(x) ==
    /\ x \notin DOMAIN db.entities
    /\ EventsOf(db.events, x) = {}
    /\ EventsOf(db'.events, x) # {}

EnumDecodeStep(w) ==
    /\ conv[w].db_event # None /\ conv[w].decoded = None
    /\ conv'[w].via = "try_enum_event_from_db_event"

\* C21: try_enum_event_from_db_event gives the variant named by the DBEvent's
\* event_type, also for data that another variant could be read from; a
\* DBEvent made from a payload of a variant decodes to that payload, and id,
\* event_type, entity_type, entity_id, session_id, purger_id, created_at and
\* purged_at are those of the DBEvent.
C21_EnumDispatch ==
    [][\A w \in Clients :
        EnumDecodeStep(w) =>
            LET d == conv[w].db_event
                e == conv[w].event
                r == conv'[w].decoded
            IN  /\ r.ok =>
                      /\ r.v.data # None
                      /\ r.v.data.v.t = d.event_type
                      /\ [r.v EXCEPT !.data = None]
                            = EventOfDBEvent(d, None)
                /\ (/\ e # None /\ e.data # None
                    /\ \E k \in DOMAIN Variants : Variants[k] = e.data.t) =>
                      /\ r.ok
                      /\ r.v.data = UserEventData(e.data)
      ]_vars

C21_Witness ==
    \E w \in Clients :
        /\ conv[w].via = "try_enum_event_from_db_event"
        /\ conv[w].decoded # None /\ conv[w].decoded.ok
        /\ conv[w].decoded.v.data = UserEventData(UserUpdated("a"))
        /\ conv[w].db_event.data = to_value(UserCreated("a"))
        /\ conv[w].db_event.session_id \in SessionIds

\* the step in which client w decodes, as Event<S>, the DBEvent it made from
\* its Event<S>
RoundTripStep(w) ==
    /\ conv[w].event # None
    /\ conv[w].db_event = DBEventFrom(conv[w].event)
    /\ conv[w].decoded = None
    /\ conv'[w].via = "try_from"

\* C22: converting an Event<D> to a DBEvent and back to Event<D> succeeds and
\* gives an event equal to the original in every field, data included, with
\* a payload or without.
C22_RoundTrip ==
    [][\A w \in Clients :
        RoundTripStep(w) => conv'[w].decoded = Ok(conv[w].event)
      ]_vars

\* the step in which client w applies the enum event it decoded
ActionAggregateStep(w) ==
    /\ conv[w].decoded # None /\ conv[w].decoded.ok
    /\ conv[w].type = "UserEventData"
    /\ conv'[w] = ConvNone

\* C23: try_aggregate_action with an event that has no data and Some(entity)
\* returns Ok(entity), the entity unchanged in every field.
C23_ActionNoop ==
    [][\A w \in Clients :
        (ActionAggregateStep(w) /\ conv[w].decoded.v.data = None /\ held[w] # None)
            => /\ held'[w] = held[w]
               /\ errs' = errs
      ]_vars

C23_Witness ==
    \E w \in Clients :
        /\ conv[w] = ConvNone
        /\ applied[w] # None /\ applied[w].data = None
        /\ applied[w].event_type = "UserUpdated"
        /\ applied[w].purged_at # NoneTime
        /\ held[w] # None /\ held[w].name \in Names

\* the step in which client w applies the creation or update event it decoded
CreateOrUpdateAggregateStep(w) ==
    /\ conv[w].decoded # None /\ conv[w].decoded.ok
    /\ conv[w].type \in {"UserCreated", "TestUnitStructCreate",
                         "UserUpdated", "TestUnitStructUpdate"}
    /\ conv'[w] = ConvNone

\* C25: try_aggregate_create and try_aggregate_update, in every
\* implementation, return the empty-payload error and no entity for an event
\* whose data is None.
C25_EmptyPayloadError ==
    [][\A w \in Clients :
        (CreateOrUpdateAggregateStep(w) /\ conv[w].decoded.v.data = None)
            => /\ held'[w] = None
               /\ \E f \in errs' : f.at = "EmptyEventData"
      ]_vars

\* C24: try_action with no entity succeeds only for a creation payload: with
\* an update or a delete payload it returns the missing-entity error and no
\* pair, and try_aggregate_action with no entity and an event without data
\* returns the missing-entity error.
C24_ActionNeedsEntity ==
    [][\A w \in Clients :
        (ActionBuildStep(w) /\ held[w] = None) =>
            LET variant == builder[w].payload.v.t
                event == ActionBuild(builder[w], None, nextUuid + 1,
                                     nextUuid + 2, now + 1)
            IN  /\ variant \in {"UserUpdated", "UserDeleted"} =>
                      /\ pending'[w] = None
                      /\ \E f \in errs' :
                            /\ f.op = "try_action" /\ f.at = "MissingEntity"
                            /\ f.event = event.id
                /\ variant = "UserCreated" =>
                      /\ pending'[w] # None /\ pending'[w].kind = "ActionBuilder"
                      /\ errs' = errs
                /\ try_aggregate_action(None, [event EXCEPT !.data = None])
                      = Err("MissingEntity")
      ]_vars

C24_Witness ==
    /\ \E f \in errs : f.op = "try_action" /\ f.at = "MissingEntity"
    /\ \A w \in Clients : pending[w] = None /\ held[w] = None

\* C26: try_aggregate_delete returns the entity it is given, unchanged: the
\* pair of try_delete and the pair of try_action with a delete payload hold
\* the entity exactly as it was handed in.
C26_DeleteAggregateIdentity ==
    [][\A w \in Clients :
        /\ DeleteBuildStep(w) =>
              /\ pending'[w] # None
              /\ pending'[w].entity = held[w]
              /\ try_aggregate_delete(held[w], pending'[w].event) = Ok(held[w])
        /\ (/\ ActionBuildStep(w) /\ held[w] # None
            /\ builder[w].payload.v.t = "UserDeleted") =>
              /\ pending'[w] # None /\ pending'[w].kind = "ActionBuilder"
              /\ pending'[w].entity = held[w]
      ]_vars

C26_Witness ==
    \E w \in Clients :
        /\ pending[w] # None /\ pending[w].kind = "ActionBuilder"
        /\ pending[w].event.event_type = "UserDeleted"
        /\ pending[w].entity.name \in Names

\* C27: check_conflict against any applied event returns Ok(payload) for a
\* creation payload and, for an update or delete payload, Err(ConflictData)
\* with that applied event and that payload; a conflict builder made from
\* its outcome carries the applied event and an update or delete payload.
C27_CheckConflictPolicy ==
    \A w \in Clients :
        /\ (applied[w] # None /\ applied[w].data # None
            /\ applied[w].data.t = "UserEventData") =>
              \A p \in EnumPayloads :
                  LET r == check_conflict(p, applied[w])
                  IN  IF p.v.t = "UserCreated"
                      THEN r = Ok(p)
                      ELSE /\ ~r.ok
                           /\ r.e.applied_event = applied[w]
                           /\ r.e.conflicting_event_data = p
        /\ (builder[w] # None /\ builder[w].kind = "Conflict") =>
              /\ builder[w].payload.applied_event = applied[w]
              /\ builder[w].payload.conflicting_event_data.v.t
                    \in {"UserUpdated", "UserDeleted"}

C27_Witness ==
    \E w \in Clients :
        /\ builder[w] # None /\ builder[w].kind = "Conflict"
        /\ builder[w].payload.conflicting_event_data = UserEventData(UserDeleted)
        /\ builder[w].payload.applied_event.event_type = "UserCreated"
        /\ builder[w].payload.applied_event.data.t = "UserEventData"

\* the step in which a try_* call of client w returns a pair
PairBuiltStep(w) ==
    /\ builder[w] # None /\ builder'[w] = None
    /\ pending'[w] # None

\* C29: the id of every event a builder or a try_* call produces is drawn in
\* that call, so it differs from the id of every event produced before; the
\* id of a conflict event differs from the id of the applied event it embeds.
C29_EventIdsUnique ==
    [][\A w \in Clients :
        PairBuiltStep(w) =>
            LET event == pending'[w].event
            IN  /\ event.id \in (nextUuid + 1)..nextUuid'
                /\ \A v \in Clients :
                      applied[v] # None => applied[v].id <= nextUuid
                /\ (event.data # None /\ event.data.t = "ConflictData") =>
                      /\ event.data.applied_event.id <= nextUuid
                      /\ event.id # event.data.applied_event.id
      ]_vars

C29_Witness ==
    \E w \in Clients :
        /\ pending[w] # None
        /\ pending[w].event.event_type = "ConflictData"
        /\ pending[w].event.id > pending[w].event.data.applied_event.id
        /\ pending[w].event.data.applied_event.id \in 1..MaxUuid

\* the step in which client w gets the event of a build call
EventBuiltStep(w) ==
    /\ builder[w] # None /\ builder'[w] = None
    /\ pending[w] = None /\ pending'[w] # None

\* C28: every builder assigns the event id and created_at in build, not when
\* the builder is made: an event built after another caller's event has a
\* created_at that is not earlier and an id that was drawn later.
C28_AssignedAtBuild ==
    [][\A w \in Clients : \A v \in Clients \ {w} :
        (EventBuiltStep(w) /\ pending[v] # None) =>
            /\ pending'[w].event.created_at >= pending[v].event.created_at
            /\ pending'[w].event.id > pending[v].event.id
      ]_vars

\* the step in which the clone of seed pair k is persisted again and the
\* call returns Ok, while the rows of its event and its entity are as the
\* first persist left them
RetryOkStep(k) ==
    LET sb == SeedPairs[k]
    IN  /\ seq' = seq + 1 /\ nextUuid' = nextUuid /\ errs' = errs
        /\ \E w \in Clients : held'[w] = sb.entity /\ tx[w].state # "open"
        /\ sb.event.id \in DOMAIN db.events
        /\ db.events[sb.event.id] = SeedStore.events[sb.event.id]
        /\ sb.entity.id \in DOMAIN db.entities
        /\ db.entities[sb.entity.id] = SeedStore.entities[sb.entity.id]

\* C30: persisting the same event and the same entity a second time returns
\* Ok and leaves one row per id with the contents the first persist gave it,
\* in a second transaction as well as twice in one transaction.
C30_PersistIdempotent ==
    [][\A k \in DOMAIN SeedPairs :
        /\ RetryOkStep(k) => db' = db
        /\ LET once == stage_persist(db, TxBegin, SeedPairs[k], "none", seq + 1)
               twice == stage_persist(db, once.t, SeedPairs[k], "none", seq + 2)
           IN  /\ twice.r.ok
               /\ twice.r = once.r
               /\ twice.t = once.t
               /\ TxCommit(db, twice.t) = TxCommit(db, once.t)
      ]_vars

C30_Witness ==
    /\ seq = 3 /\ nextUuid = 0 /\ errs = {}
    /\ db = SeedStore
    /\ \E w \in Clients : held[w] # None

\* the step in which user.try_delete(UserDeleted).delete(&store) of client w
\* returns Ok
DeleteOkStep(w) ==
    /\ tx[w].state # "open" /\ held[w] # None
    /\ nextUuid' = nextUuid + 1 /\ now' = now + 1 /\ seq' = seq + 1
    /\ held'[w] = None /\ errs' = errs

\* C31: after DeleteBuilderPersist::delete returned Ok the entity row is
\* gone, exactly one event row was added, the delete event of that entity,
\* and every earlier event row is unchanged, its data included.
C31_DeleteRetainsEvents ==
    [][\A w \in Clients :
        DeleteOkStep(w) =>
            LET x == held[w].id
                added == DOMAIN db'.events \ DOMAIN db.events
            IN  /\ x \notin DOMAIN db'.entities
                /\ Cardinality(added) = 1
                /\ \A i \in added :
                      /\ db'.events[i].entity_id = x
                      /\ db'.events[i].event_type = "UserDeleted"
                /\ \A i \in DOMAIN db.events :
                      i \in DOMAIN db'.events /\ db'.events[i] = db.events[i]
      ]_vars

C31_Witness ==
    \E i \in DOMAIN db.events, k \in DOMAIN db.events :
        /\ db.events[i].event_type = "UserDeleted"
        /\ db.events[k].event_type = "UserCreated"
        /\ db.events[k].entity_id = db.events[i].entity_id
        /\ db.events[k].data # SqlNull
        /\ db.events[i].entity_id \notin DOMAIN db.entities

\* the event that the build method of builder b gives for entity e
BuiltBy(b, e) ==
    CASE b.kind = "Create" -> CreateBuild(b, nextUuid + 1, now + 1)
      [] b.kind = "Update" -> UpdateBuild(b, e, nextUuid + 1, now + 1)
      [] b.kind = "Delete" -> DeleteBuild(b, e, nextUuid + 1, now + 1)
      [] b.kind = "Conflict" -> ConflictBuild(b, e, nextUuid + 1, now + 1)
      [] b.kind = "Action" -> ActionBuild(b, e, nextUuid + 1, nextUuid + 2, now + 1)
      [] b.kind = "Purge" -> PurgeBuild(b, e, nextUuid + 1, now + 1, now + 2)

\* an event that carries payload p and no purge stamp
CarriesPayload(event, p) ==
    /\ event.data # None /\ event.data = p
    /\ event.purged_at = NoneTime
    /\ event.purger_id = NoneId

\* C32: every event of the create, update, delete, action and conflict
\* builders has data = Some(payload of the builder), purged_at = None and
\* purger_id = None; an event without data comes from the purge builder.
C32_DataSomeUnlessPurge ==
    [][\A w \in Clients :
        /\ (builder[w] # None /\ held[w] # None) =>
              /\ builder[w].kind # "Purge" =>
                    CarriesPayload(BuiltBy(builder[w], held[w]), builder[w].payload)
              /\ BuiltBy(builder[w], held[w]).data = None =>
                    builder[w].kind = "Purge"
        /\ PairBuiltStep(w) =>
              /\ builder[w].kind # "Purge" =>
                    CarriesPayload(pending'[w].event, builder[w].payload)
              /\ pending'[w].event.data = None => builder[w].kind = "Purge"
      ]_vars

C32_Witness ==
    \E w \in Clients :
        /\ pending[w] # None
        /\ pending[w].event.event_type = "ConflictData"
        /\ pending[w].event.data # None
        /\ pending[w].event.data.conflicting_event_data.v.t = "UserUpdated"
        /\ pending[w].event.purged_at = NoneTime
        /\ pending[w].event.purger_id = NoneId

\* C33: a failure of the build and store calls is returned as an Err, never
\* raised as a panic, and nothing is committed by a call that fails: also
\* when the conversion of the Event into a DBEvent fails.
C33_ErrorsReturned ==
    [][/\ \A f \in errs' \ errs : f.at # "panic"
       /\ errs' # errs => db' = db
      ]_vars

\* C34: along a chain that starts with try_create (or try_action without an
\* entity) and applies try_update, try_delete, try_flag_conflict and
\* try_action each to the entity the previous call returned, the entity_id of
\* every returned event and the id of every returned entity are the
\* entity_id of the creation event.
C34_ChainIdentity ==
    [][\A w \in Clients :
        PairBuiltStep(w) =>
            IF builder[w].kind = "Create" \/ held[w] = None
            THEN pending'[w].entity.id = pending'[w].event.entity_id
            ELSE /\ pending'[w].event.entity_id = held[w].id
                 /\ pending'[w].entity.id = held[w].id
      ]_vars

\* the step in which a try_create(..).persist(&store) or a
\* try_update(..).persist(&store) returns Ok: the event built in the call
\* becomes a committed row in the same step
PersistOkStep ==
    /\ tx' = tx /\ errs' = errs
    /\ nextUuid' > nextUuid
    /\ nextUuid' \in DOMAIN db'.events \ DOMAIN db.events
    /\ db'.events[nextUuid'].event_type \in {"UserCreated", "UserUpdated"}

\* C35: when StorageBuilderPersist::persist returned Ok its transaction is
\* committed: exactly one event row is new, the row of the pair's event, and
\* every connection sees it; the entity row is committed and equal to the
\* returned entity, which is the pair's entity; a row that had the same id is
\* replaced and no other row is added, removed or changed.
C35_PersistOkCommitted ==
    [][PersistOkStep =>
        \E w \in Clients :
            /\ tx[w].state # "open" /\ held'[w] # None
            /\ LET e == nextUuid'
                   x == held'[w].id
               IN  /\ DOMAIN db'.events \ DOMAIN db.events = {e}
                   /\ db'.events[e].entity_id = x
                   /\ db'.events[e].data # SqlNull
                   /\ \A v \in Clients : e \in DOMAIN ViewEvents(db', tx'[v])
                   /\ \A i \in DOMAIN db.events : db'.events[i] = db.events[i]
                   /\ x \in DOMAIN db'.entities
                   /\ db'.entities[x] = held'[w]
                   /\ held'[w].name = db'.events[e].data.name
                   /\ nextUuid' = nextUuid + 1 =>
                         /\ held[w] # None
                         /\ held'[w] = [held[w] EXCEPT !.name = held'[w].name]
                   /\ nextUuid' = nextUuid + 2 =>
                         held'[w] = User(nextUuid + 1, held'[w].name, FALSE)
                   /\ DOMAIN db'.entities = DOMAIN db.entities \cup {x}
                   /\ \A y \in DOMAIN db.entities \ {x} :
                         db'.entities[y] = db.entities[y]
      ]_vars

C35_Witness ==
    \E w \in Clients :
        /\ held[w] # None /\ held[w].id \in DOMAIN db.entities
        /\ db.entities[held[w].id] = held[w]
        /\ held[w].name = "b"
        /\ \E i \in DOMAIN db.events, k \in DOMAIN db.events :
              /\ db.events[i].entity_id = held[w].id
              /\ db.events[i].event_type = "UserCreated"
              /\ db.events[k].entity_id = held[w].id
              /\ db.events[k].event_type = "UserUpdated"
              /\ db.events[k].data = [j |-> "object", name |-> "b"]

\* the ids of the users that have a committed purge event
PurgedUsers ==
    {db.events[i].entity_id :
        i \in {k \in DOMAIN db.events : db.events[k].event_type = "UserPurged"}}

\* the step in which a try_update(..).persist(&store), called outside any
\* transaction of the caller, returns Ok
UpdatePersistedStep ==
    /\ tx' = tx /\ errs' = errs
    /\ nextUuid' \in DOMAIN db'.events \ DOMAIN db.events
    /\ db'.events[nextUuid'].event_type = "UserUpdated"

\* C36: once the purge of user x is committed, an update of x that was built
\* from the state before the purge and is persisted afterwards leaves no user
\* row of x and no event row of x with data in the store.
C36_PurgeFinal ==
    [][UpdatePersistedStep =>
        \A x \in PurgedUsers :
            /\ x \notin DOMAIN db'.entities
            /\ \A i \in EventsOf(db'.events, x) : db'.events[i].data = SqlNull
      ]_vars

\* C37: try_enum_event_from_db_event of a purged DBEvent, whose data is
\* null, returns Ok with an event that has no data, the event for which
\* try_aggregate_action returns the entity unchanged.
C37_PurgedReplay ==
    [][\A w \in Clients :
        (EnumDecodeStep(w) /\ conv[w].db_event.data = SqlNull) =>
            LET r == conv'[w].decoded
            IN  /\ r.ok
                /\ r.v.data = None
                /\ \A u \in ConvUsers : try_aggregate_action(u, r.v) = Ok(u)
      ]_vars

\* C38: committed event rows have distinct sequence numbers, a row keeps its
\* sequence number in every step, and a row that becomes visible has a
\* sequence number above those of all rows that were visible before it, so
\* that a reader who has seen number n misses no row below n.
C38_SequenceOrder ==
    [][/\ \A i \in DOMAIN db'.events, k \in DOMAIN db'.events :
            i # k => db'.events[i].sequence_number # db'.events[k].sequence_number
       /\ \A i \in DOMAIN db.events :
            /\ i \in DOMAIN db'.events
            /\ db'.events[i].sequence_number = db.events[i].sequence_number
       /\ \A i \in DOMAIN db'.events \ DOMAIN db.events :
            \A k \in DOMAIN db.events :
                db.events[k].sequence_number < db'.events[i].sequence_number
      ]_vars

====
